---- MODULE Spec2Model ----
(***************************************************************************)
(* Coverage and signal-detection engine of the Lassa fever dashboard:      *)
(* fetchWeeklyCoverage (lib/data.ts), calculatePercentageChange            *)
(* (lib/utils.ts), fetchLassaSummary (lib/reports.ts), the report         *)
(* route POST handler (app/api/report/route.ts), the rate limiter          *)
(* (lib/rate-limit.ts) and the data download route                         *)
(* (app/api/data/download/route.ts).                                       *)
(*                                                                         *)
(* Representation.  A Date is the number of days since Monday 2024-01-01   *)
(* (the server clock is UTC, every Date the code builds is a midnight);    *)
(* an Invalid Date is NaNDate.  A nullable number is the number or Null.   *)
(* A week key `${year}-W${week padded to 2}` is the pair <<year, week>>;   *)
(* for 4-digit years and weeks 0..99 the order of localeCompare on the     *)
(* strings is the lexicographic order of the pairs (keyBefore).            *)
(* A ratio rounded by toFixed(3) is held in thousandths.                   *)
(***************************************************************************)
EXTENDS Integers, Sequences, FiniteSets, TLC

VARIABLES
    db,          \* rows of table lassa_data, in the order a select returns them
    call,        \* one invocation of fetchWeeklyCoverage: pc, arguments, result
    pct,         \* one evaluation of calculatePercentageChange
    req,         \* one request to POST /api/report: pc, locals, response
    env,         \* process.env of the server: the LLM provider and which API keys are set
    now,         \* Date.now() of the server, in milliseconds
    memoryStore, \* the Map of lib/rate-limit.ts: key -> count and resetAt
    upstash,     \* the keys held by the Upstash Redis database: key -> count and expireAt
    caller,      \* the callers of rateLimit: pc, locals, result and, for a download, the response
    limiter,     \* whether Upstash is configured, and the limit and window the caller passes
    traffic      \* POST /api/data/download so far: requests received, data responses per instant

engineVars == <<db, call, pct, req, env>>

limiterVars == <<now, memoryStore, upstash, caller, limiter, traffic>>

vars == <<db, call, pct, req, env, now, memoryStore, upstash, caller, limiter, traffic>>

\* ------------------------------------------------------------------------
\* Values

Null == 0 - 9999

NaNDate == 0 - 999999

EpochYear == 2024

\* ------------------------------------------------------------------------
\* Calendar (date-fns, UTC)

IsLeap(y) == (y % 4 = 0 /\ y % 100 # 0) \/ y % 400 = 0

DaysInYear(y) == IF IsLeap(y) THEN 366 ELSE 365

RECURSIVE Jan1(_)
Jan1(y) ==
    IF y = EpochYear THEN 0
    ELSE IF y > EpochYear THEN Jan1(y - 1) + DaysInYear(y - 1)
    ELSE Jan1(y + 1) - DaysInYear(y)

DaysBeforeMonth(y, m) ==
    LET cum == <<0, 31, 59, 90, 120, 151, 181, 212, 243, 273, 304, 334>>
    IN  cum[m] + (IF m > 2 /\ IsLeap(y) THEN 1 ELSE 0)

\* new Date("YYYY-MM-DD") / new Date(y, m - 1, d)
DateOf(y, m, d) == Jan1(y) + DaysBeforeMonth(y, m) + (d - 1)

CalendarYears == (EpochYear - 2) .. (EpochYear + 4)

getFullYear(date) == CHOOSE y \in CalendarYears : Jan1(y) <= date /\ date < Jan1(y + 1)

addDays(date, n) == date + n

addWeeks(date, n) == date + 7 * n

isAfter(a, b) == a # NaNDate /\ b # NaNDate /\ a > b

isBefore(a, b) == a # NaNDate /\ b # NaNDate /\ a < b

differenceInDays(a, b) == a - b

\* day 0 is a Monday
startOfISOWeek(date) == date - (date % 7)

getISOWeekYear(date) ==
    LET year == getFullYear(date)
        startOfNextYear == startOfISOWeek(DateOf(year + 1, 1, 4))
        startOfThisYear == startOfISOWeek(DateOf(year, 1, 4))
    IN  IF date >= startOfNextYear THEN year + 1
        ELSE IF date >= startOfThisYear THEN year
        ELSE year - 1

startOfISOWeekYear(date) == startOfISOWeek(DateOf(getISOWeekYear(date), 1, 4))

getISOWeek(date) == ((startOfISOWeek(date) - startOfISOWeekYear(date)) \div 7) + 1

getIsoWeekStart(year, week) ==
    LET firstThursday == DateOf(year, 1, 4)
        firstWeekStart == startOfISOWeek(firstThursday)
    IN  addWeeks(firstWeekStart, week - 1)

\* ------------------------------------------------------------------------
\* Generic helpers (Array.prototype.sort is stable; Map/Set keep insertion order)

Range(s) == {s[i] : i \in 1..Len(s)}

Min2(a, b) == IF a <= b THEN a ELSE b

Max2(a, b) == IF a >= b THEN a ELSE b

Take(s, n) == SubSeq(s, 1, Min2(n, Len(s)))

\* distinct values of s in the order of their first occurrence
RECURSIVE FirstSeen(_)
FirstSeen(s) ==
    IF s = <<>> THEN <<>>
    ELSE LET front == FirstSeen(SubSeq(s, 1, Len(s) - 1))
             last == s[Len(s)]
         IN  IF last \in Range(front) THEN front ELSE Append(front, last)

\* Array.prototype.sort with a comparator that orders by an integer rank, ascending.
\* The sort is stable: among equal ranks the earlier index stays first.
\* InsertIdx puts index i (larger than every index in idx) after all entries of rank <= ranks[i].
RECURSIVE InsertIdx(_, _, _)
InsertIdx(idx, i, ranks) ==
    IF idx = <<>> THEN <<i>>
    ELSE IF ranks[i] < ranks[Head(idx)] THEN <<i>> \o idx
    ELSE <<Head(idx)>> \o InsertIdx(Tail(idx), i, ranks)

RECURSIVE SortIdx(_, _)
SortIdx(n, ranks) == IF n = 0 THEN <<>> ELSE InsertIdx(SortIdx(n - 1, ranks), n, ranks)

StableSortBy(s, ranks) ==
    LET idx == SortIdx(Len(s), ranks)
    IN  [j \in 1..Len(s) |-> s[idx[j]]]

RECURSIVE SumSeq(_)
SumSeq(s) == IF s = <<>> THEN 0 ELSE Head(s) + SumSeq(Tail(s))

MapSeq(s, f(_)) == [i \in 1..Len(s) |-> f(s[i])]

\* variant: the digits after the third decimal cut off
toFixed3_truncated(n, d) == (1000 * n) \div d

\* Number((n / d).toFixed(3)), in thousandths (d > 0, n >= 0; ties round up)
toFixed3(n, d) == (2000 * n + d) \div (2 * d)

\* ------------------------------------------------------------------------
\* Numbers that are not integers: the fraction <<n, d>> in lowest terms, d > 0.
\* NullNum stands for null / undefined.

Abs(x) == IF x < 0 THEN 0 - x ELSE x

RECURSIVE GCD(_, _)
GCD(a, b) == IF b = 0 THEN a ELSE GCD(b, a % b)

Rat(n, d) ==
    LET g == GCD(Abs(n), Abs(d))
        sgn == IF d < 0 THEN 0 - 1 ELSE 1
    IN  <<(sgn * n) \div g, (sgn * d) \div g>>

Num(n) == <<n, 1>>

NullNum == <<0, 0>>

RatSub(a, b) == Rat(a[1] * b[2] - b[1] * a[2], a[2] * b[2])

RatMul(a, b) == Rat(a[1] * b[1], a[2] * b[2])

RatDiv(a, b) == Rat(a[1] * b[2], a[2] * b[1])

RatAbs(a) == <<Abs(a[1]), a[2]>>

\* ------------------------------------------------------------------------
\* lib/utils.ts

\* variant: growth from a zero base reported as 0
calculatePercentageChange_zeroBase(current, previous) ==
    LET currentValue == IF current = NullNum THEN Num(0) ELSE current
        previousValue == IF previous = NullNum THEN Num(0) ELSE previous
    IN  IF previousValue = Num(0) THEN Num(0)
        ELSE RatMul(RatDiv(RatSub(currentValue, previousValue), RatAbs(previousValue)), Num(100))

calculatePercentageChange(current, previous) ==
    LET currentValue == IF current = NullNum THEN Num(0) ELSE current
        previousValue == IF previous = NullNum THEN Num(0) ELSE previous
    IN  IF previousValue = Num(0)
        THEN (IF currentValue = Num(0) THEN Num(0) ELSE Num(100))
        ELSE RatMul(RatDiv(RatSub(currentValue, previousValue), RatAbs(previousValue)), Num(100))

\* ------------------------------------------------------------------------
\* lib/data.ts

\* the columns of lassa_data are numeric or null, so only the number and the
\* null branch of toInteger are reached
toInteger(value) == value

toNumber(value) == IF toInteger(value) = Null THEN 0 ELSE toInteger(value)

formatWeekKey(year, week) == <<year, week>>

\* a.localeCompare(b) < 0 on the formatted keys
keyBefore(a, b) == a[1] < b[1] \/ (a[1] = b[1] /\ a[2] < b[2])

\* rank of a key in the localeCompare order (4-digit year, week in 0..99)
keyRank(k) == k[1] * 100 + k[2]

sortKeys(keys) == StableSortBy(keys, MapSeq(keys, keyRank))

AllStates == "All States"

TotalState == "Total"

emptyResult ==
    [ availableWeekLabels |-> <<>>,
      weeklySeries        |-> <<>>,
      missingWeekLabels   |-> <<>>,
      coverageRatio       |-> Null,
      totalWeeks          |-> Null,
      topContributors     |-> <<>>,
      fastestGrowers      |-> <<>>,
      alertFlags          |-> {},
      notableSignals      |-> <<>> ]

\* variant: the isAfter(startDate, endDate) test left out
isDegenerate_onlyNaN(startDate, endDate) == startDate = NaNDate \/ endDate = NaNDate

isDegenerate(startDate, endDate) ==
    startDate = NaNDate \/ endDate = NaNDate \/ isAfter(startDate, endDate)

\* the ISO-week starts visited by `while (!isAfter(cursor, endDate))`
RECURSIVE weekWalk(_, _)
weekWalk(cursor, endDate) ==
    IF isAfter(cursor, endDate) THEN <<>>
    ELSE <<cursor>> \o weekWalk(addWeeks(cursor, 1), endDate)

yearsToFetch(startDate, endDate) ==
    {getISOWeekYear(c) : c \in Range(weekWalk(startOfISOWeek(startDate), endDate))}
        \cup {getISOWeekYear(endDate)}

stateFiltersOf(states) == SelectSeq(states, LAMBDA s : s # "" /\ s # AllStates)

\* variant: the select without .neq("states", "Total")
runQuery_withTotal(table, years, stateFilters) ==
    SelectSeq(table, LAMBDA row :
        /\ row.full_year \in years
        /\ (Len(stateFilters) > 0 => row.states \in Range(stateFilters)))

\* the select on lassa_data: .neq("states","Total").in("full_year",...).in("states",...)
runQuery(table, years, stateFilters) ==
    SelectSeq(table, LAMBDA row :
        /\ row.states # TotalState
        /\ row.full_year \in years
        /\ (Len(stateFilters) > 0 => row.states \in Range(stateFilters)))

\* variant: a row kept only when its week starts inside the window
rowAccepted_startInside(row, startDate, endDate) ==
    LET year == toInteger(row.full_year)
        week == toInteger(row.week)
    IN  /\ year # Null
        /\ week # Null
        /\ LET weekStart == getIsoWeekStart(year, week)
           IN  ~(isBefore(weekStart, startDate) \/ isAfter(weekStart, endDate))

rowAccepted(row, startDate, endDate) ==
    LET year == toInteger(row.full_year)
        week == toInteger(row.week)
    IN  /\ year # Null
        /\ week # Null
        /\ LET weekStart == getIsoWeekStart(year, week)
               weekEnd == addDays(weekStart, 6)
           IN  ~(isBefore(weekEnd, startDate) \/ isAfter(weekStart, endDate))

rowKey(row) == formatWeekKey(toInteger(row.full_year), toInteger(row.week))

\* row.states ?? "Unknown"; a null state name is held as ""
rowState(row) == IF row.states = "" THEN "Unknown" ELSE row.states

acceptedRows(data, startDate, endDate) ==
    SelectSeq(data, LAMBDA row : rowAccepted(row, startDate, endDate))

\* the {suspected, confirmed, deaths} accumulated over the rows of a sequence
totalsOf(rows) ==
    [ suspected |-> SumSeq(MapSeq(rows, LAMBDA r : toNumber(r.suspected))),
      confirmed |-> SumSeq(MapSeq(rows, LAMBDA r : toNumber(r.confirmed))),
      deaths    |-> SumSeq(MapSeq(rows, LAMBDA r : toNumber(r.deaths))) ]

\* Array.from(availableWeeks).sort(localeCompare)
availableWeekLabelsOf(rows) == sortKeys(FirstSeen(MapSeq(rows, rowKey)))

\* variant: the weekly totals of the first state met instead of all states summed
weeklySeriesOf_firstState(rows) ==
    MapSeq(availableWeekLabelsOf(rows), LAMBDA k :
        LET t == totalsOf(SelectSeq(rows, LAMBDA r : rowKey(r) = k /\ rowState(r) = rowState(rows[1])))
        IN  [week |-> k, week_formatted |-> k,
             suspected |-> t.suspected, confirmed |-> t.confirmed, deaths |-> t.deaths])

weeklySeriesOf(rows) ==
    MapSeq(availableWeekLabelsOf(rows), LAMBDA k :
        LET t == totalsOf(SelectSeq(rows, LAMBDA r : rowKey(r) = k))
        IN  [week |-> k, week_formatted |-> k,
             suspected |-> t.suspected, confirmed |-> t.confirmed, deaths |-> t.deaths])

allWeekKeysOf(startDate, endDate) ==
    FirstSeen(MapSeq(weekWalk(startOfISOWeek(startDate), endDate),
                     LAMBDA c : formatWeekKey(getISOWeekYear(c), getISOWeek(c))))

missingWeekLabelsOf(allWeekKeys, availableWeeks) ==
    SelectSeq(allWeekKeys, LAMBDA week : week \notin availableWeeks)

totalWeeksOf(allWeekKeys) == IF Len(allWeekKeys) > 0 THEN Len(allWeekKeys) ELSE Null

\* variant: no ratio when no week has data
coverageRatioOf_nullWhenEmpty(available, totalWeeks) ==
    IF totalWeeks # Null /\ totalWeeks > 0 /\ available > 0 THEN toFixed3(available, totalWeeks) ELSE Null

coverageRatioOf(available, totalWeeks) ==
    IF totalWeeks # Null /\ totalWeeks > 0 THEN toFixed3(available, totalWeeks) ELSE Null

\* variant: a state's entry set by its last row instead of accumulated
stateTotalsArrayOf_lastRow(rows) ==
    MapSeq(FirstSeen(MapSeq(rows, rowState)), LAMBDA st :
        LET own == SelectSeq(rows, LAMBDA r : rowState(r) = st)
            t == totalsOf(<<own[Len(own)]>>)
        IN  [state |-> st, suspected |-> t.suspected, confirmed |-> t.confirmed, deaths |-> t.deaths])

\* Array.from(stateTotals.entries()): one entry per state, in order of first appearance
stateTotalsArrayOf(rows) ==
    MapSeq(FirstSeen(MapSeq(rows, rowState)), LAMBDA st :
        LET t == totalsOf(SelectSeq(rows, LAMBDA r : rowState(r) = st))
        IN  [state |-> st, suspected |-> t.suspected, confirmed |-> t.confirmed, deaths |-> t.deaths])

TopN == 3

\* variant: the `confirmed > 0` filter left out
topContributorsOf_noFilter(stateTotalsArray) ==
    LET totalConfirmedAllStates == SumSeq(MapSeq(stateTotalsArray, LAMBDA item : item.confirmed))
        sorted == StableSortBy(stateTotalsArray, MapSeq(stateTotalsArray, LAMBDA item : 0 - item.confirmed))
    IN  MapSeq(Take(sorted, TopN), LAMBDA item :
            [state |-> item.state, suspected |-> item.suspected,
             confirmed |-> item.confirmed, deaths |-> item.deaths,
             shareOfConfirmed |-> IF totalConfirmedAllStates > 0
                                  THEN toFixed3(item.confirmed, totalConfirmedAllStates)
                                  ELSE Null])

topContributorsOf(stateTotalsArray) ==
    LET totalConfirmedAllStates == SumSeq(MapSeq(stateTotalsArray, LAMBDA item : item.confirmed))
        positive == SelectSeq(stateTotalsArray, LAMBDA item : item.confirmed > 0)
        sorted == StableSortBy(positive, MapSeq(positive, LAMBDA item : 0 - item.confirmed))
    IN  MapSeq(Take(sorted, TopN), LAMBDA item :
            [state |-> item.state, suspected |-> item.suspected,
             confirmed |-> item.confirmed, deaths |-> item.deaths,
             shareOfConfirmed |-> IF totalConfirmedAllStates > 0
                                  THEN toFixed3(item.confirmed, totalConfirmedAllStates)
                                  ELSE Null])

NegInfinity == 0 - 1000000000

PosInfinity == 1000000000

NoWeek == <<>>

\* variant: the delta of the state's last pair of weeks instead of the largest
RECURSIVE growthScan_last(_, _, _, _)
growthScan_last(sortedWeeks, i, maxDelta, targetWeek) ==
    IF i > Len(sortedWeeks) THEN [weekOverWeekChange |-> maxDelta, week |-> targetWeek]
    ELSE growthScan_last(sortedWeeks, i + 1, sortedWeeks[i].confirmed - sortedWeeks[i - 1].confirmed,
                         sortedWeeks[i].week)

\* the loop of lines 326-334 over one state's sorted weeks; i is the 1-based index of `current`
RECURSIVE growthScan(_, _, _, _)
growthScan(sortedWeeks, i, maxDelta, targetWeek) ==
    IF i > Len(sortedWeeks) THEN [weekOverWeekChange |-> maxDelta, week |-> targetWeek]
    ELSE LET delta == sortedWeeks[i].confirmed - sortedWeeks[i - 1].confirmed
         IN  IF delta > maxDelta
             THEN growthScan(sortedWeeks, i + 1, delta, sortedWeeks[i].week)
             ELSE growthScan(sortedWeeks, i + 1, maxDelta, targetWeek)

\* variant: the `weekOverWeekChange > 0` filter left out
fastestGrowersOf_keepFalling(rows) ==
    LET perState == MapSeq(FirstSeen(MapSeq(rows, rowState)), LAMBDA st :
            LET sortedWeeks == weeklySeriesOf(SelectSeq(rows, LAMBDA r : rowState(r) = st))
                g == growthScan(sortedWeeks, 2, NegInfinity, NoWeek)
            IN  [state |-> st, weekOverWeekChange |-> g.weekOverWeekChange, week |-> g.week])
        growing == SelectSeq(perState, LAMBDA item :
            item.weekOverWeekChange # NegInfinity)
        sorted == StableSortBy(growing, MapSeq(growing, LAMBDA item : 0 - item.weekOverWeekChange))
    IN  Take(sorted, TopN)

fastestGrowersOf(rows) ==
    LET perState == MapSeq(FirstSeen(MapSeq(rows, rowState)), LAMBDA st :
            LET sortedWeeks == weeklySeriesOf(SelectSeq(rows, LAMBDA r : rowState(r) = st))
                g == growthScan(sortedWeeks, 2, NegInfinity, NoWeek)
            IN  [state |-> st, weekOverWeekChange |-> g.weekOverWeekChange, week |-> g.week])
        growing == SelectSeq(perState, LAMBDA item :
            item.weekOverWeekChange # NegInfinity /\ item.weekOverWeekChange > 0)
        sorted == StableSortBy(growing, MapSeq(growing, LAMBDA item : 0 - item.weekOverWeekChange))
    IN  Take(sorted, TopN)

IncompleteThreshold == 750

SpikeThreshold == 25

DeathsThreshold == 5

\* variant: the growth counter kept across a week without growth
RECURSIVE seriesScan_noReset(_, _, _)
seriesScan_noReset(weeklySeries, i, st) ==
    IF i > Len(weeklySeries) THEN st
    ELSE LET current == weeklySeries[i]
             previous == weeklySeries[i - 1]
             delta == current.confirmed - previous.confirmed
             here == [delta |-> delta, currentWeek |-> current.week, previousWeek |-> previous.week]
         IN  IF delta > 0
             THEN seriesScan_noReset(weeklySeries, i + 1,
                    [ consecutiveGrowth |-> st.consecutiveGrowth + 1,
                      sustainedGrowth |-> st.sustainedGrowth \/ st.consecutiveGrowth + 1 >= 2,
                      maxIncrease |-> IF delta > st.maxIncrease.delta THEN here ELSE st.maxIncrease,
                      maxDecrease |-> st.maxDecrease ])
             ELSE seriesScan_noReset(weeklySeries, i + 1,
                    [ consecutiveGrowth |-> st.consecutiveGrowth,
                      sustainedGrowth |-> st.sustainedGrowth,
                      maxIncrease |-> st.maxIncrease,
                      maxDecrease |-> IF delta < st.maxDecrease.delta THEN here ELSE st.maxDecrease ])

\* the loop of lines 357-376 over the global series; st carries the loop's locals
RECURSIVE seriesScan(_, _, _)
seriesScan(weeklySeries, i, st) ==
    IF i > Len(weeklySeries) THEN st
    ELSE LET current == weeklySeries[i]
             previous == weeklySeries[i - 1]
             delta == current.confirmed - previous.confirmed
             here == [delta |-> delta, currentWeek |-> current.week, previousWeek |-> previous.week]
         IN  IF delta > 0
             THEN seriesScan(weeklySeries, i + 1,
                    [ consecutiveGrowth |-> st.consecutiveGrowth + 1,
                      sustainedGrowth |-> st.sustainedGrowth \/ st.consecutiveGrowth + 1 >= 2,
                      maxIncrease |-> IF delta > st.maxIncrease.delta THEN here ELSE st.maxIncrease,
                      maxDecrease |-> st.maxDecrease ])
             ELSE seriesScan(weeklySeries, i + 1,
                    [ consecutiveGrowth |-> 0,
                      sustainedGrowth |-> st.sustainedGrowth,
                      maxIncrease |-> st.maxIncrease,
                      maxDecrease |-> IF delta < st.maxDecrease.delta THEN here ELSE st.maxDecrease ])

seriesScanStart ==
    [ consecutiveGrowth |-> 0,
      sustainedGrowth |-> FALSE,
      maxIncrease |-> [delta |-> NegInfinity, currentWeek |-> NoWeek, previousWeek |-> NoWeek],
      maxDecrease |-> [delta |-> PosInfinity, currentWeek |-> NoWeek, previousWeek |-> NoWeek] ]

\* variant: the two week keys of a signal in the opposite order
signal_weeksSwapped(kind, weeks, m) ==
    [kind |-> kind, weeks |-> weeks, delta |-> m.delta,
     previousWeek |-> m.currentWeek, currentWeek |-> m.previousWeek]

signal(kind, weeks, m) ==
    [kind |-> kind, weeks |-> weeks, delta |-> m.delta,
     previousWeek |-> m.previousWeek, currentWeek |-> m.currentWeek]

\* variant: a ratio of exactly 0.75 flagged too
alertsOf_atOrBelow(weeklySeries, missingWeekLabels, coverageRatio) ==
    LET scan == IF Len(weeklySeries) > 1 THEN seriesScan(weeklySeries, 2, seriesScanStart)
                ELSE seriesScanStart
        none == [delta |-> 0, currentWeek |-> NoWeek, previousWeek |-> NoWeek]
    IN  [ alertFlags |->
              (IF coverageRatio # Null /\ coverageRatio <= IncompleteThreshold
               THEN {"incompleteReporting"} ELSE {})
              \cup (IF scan.sustainedGrowth \/ scan.consecutiveGrowth >= 2
                    THEN {"sustainedGrowth"} ELSE {})
              \cup (IF scan.maxIncrease.delta > 0 /\ scan.maxIncrease.delta >= SpikeThreshold
                    THEN {"sharpSpike"} ELSE {})
              \cup (IF \E i \in 1..Len(weeklySeries) : weeklySeries[i].deaths >= DeathsThreshold
                    THEN {"elevatedDeaths"} ELSE {}),
          notableSignals |->
              (IF Len(missingWeekLabels) > 0
               THEN <<signal("Missing weekly reports", missingWeekLabels, none)>> ELSE <<>>)
              \o (IF scan.maxIncrease.delta > 0
                  THEN <<signal("Largest confirmed increase", <<>>, scan.maxIncrease)>> ELSE <<>>)
              \o (IF scan.maxDecrease.delta < 0
                  THEN <<signal("Steepest confirmed decline", <<>>, scan.maxDecrease)>> ELSE <<>>) ]

alertsOf(weeklySeries, missingWeekLabels, coverageRatio) ==
    LET scan == IF Len(weeklySeries) > 1 THEN seriesScan(weeklySeries, 2, seriesScanStart)
                ELSE seriesScanStart
        none == [delta |-> 0, currentWeek |-> NoWeek, previousWeek |-> NoWeek]
    IN  [ alertFlags |->
              (IF coverageRatio # Null /\ coverageRatio < IncompleteThreshold
               THEN {"incompleteReporting"} ELSE {})
              \cup (IF scan.sustainedGrowth \/ scan.consecutiveGrowth >= 2
                    THEN {"sustainedGrowth"} ELSE {})
              \cup (IF scan.maxIncrease.delta > 0 /\ scan.maxIncrease.delta >= SpikeThreshold
                    THEN {"sharpSpike"} ELSE {})
              \cup (IF \E i \in 1..Len(weeklySeries) : weeklySeries[i].deaths >= DeathsThreshold
                    THEN {"elevatedDeaths"} ELSE {}),
          notableSignals |->
              (IF Len(missingWeekLabels) > 0
               THEN <<signal("Missing weekly reports", missingWeekLabels, none)>> ELSE <<>>)
              \o (IF scan.maxIncrease.delta > 0
                  THEN <<signal("Largest confirmed increase", <<>>, scan.maxIncrease)>> ELSE <<>>)
              \o (IF scan.maxDecrease.delta < 0
                  THEN <<signal("Steepest confirmed decline", <<>>, scan.maxDecrease)>> ELSE <<>>) ]

\* lines 249-412: the result built from the rows the loop has accumulated
\* (availableWeeks, weeklyTotals, stateTotals and stateWeeklyTotals are all
\* sums and key sets over the accumulated rows)
resultFromRows(rows, startDate, endDate) ==
    LET availableWeekLabels == availableWeekLabelsOf(rows)
        weeklySeries == weeklySeriesOf(rows)
        allWeekKeys == allWeekKeysOf(startDate, endDate)
        missingWeekLabels == missingWeekLabelsOf(allWeekKeys, Range(availableWeekLabels))
        totalWeeks == totalWeeksOf(allWeekKeys)
        coverageRatio == coverageRatioOf(Len(availableWeekLabels), totalWeeks)
        alerts == alertsOf(weeklySeries, missingWeekLabels, coverageRatio)
    IN  [ availableWeekLabels |-> availableWeekLabels,
          weeklySeries        |-> weeklySeries,
          missingWeekLabels   |-> missingWeekLabels,
          coverageRatio       |-> coverageRatio,
          totalWeeks          |-> totalWeeks,
          topContributors     |-> topContributorsOf(stateTotalsArrayOf(rows)),
          fastestGrowers      |-> fastestGrowersOf(rows),
          alertFlags          |-> alerts.alertFlags,
          notableSignals      |-> alerts.notableSignals ]

\* lines 226-412 with freshly allocated maps
coverageFromData(data, startDate, endDate) ==
    resultFromRows(acceptedRows(data, startDate, endDate), startDate, endDate)

\* ------------------------------------------------------------------------
\* Bounded inputs

MaxRows == 3

Row(y, w, st, s, c, d) ==
    [full_year |-> y, week |-> w, states |-> st, suspected |-> s, confirmed |-> c, deaths |-> d]

sameRecord(r, q) == r.full_year = q.full_year /\ r.week = q.week /\ r.states = q.states

\* the tables of at most n rows over S, in every order a select may return
\* them; the table holds one record per (full_year, week, states)
RECURSIVE TablesUpTo(_, _)
TablesUpTo(S, n) ==
    IF n = 0 THEN {<<>>}
    ELSE LET shorter == TablesUpTo(S, n - 1)
         IN  shorter \cup
             {Append(q, x) : <<q, x>> \in
                 {qx \in {r \in shorter : Len(r) = n - 1} \X S :
                     \A k \in 1..Len(qx[1]) : ~sameRecord(qx[1][k], qx[2])}}

\* rows around the 2024/2025 year boundary.  ISO year 2024 has 52 weeks, so
\* (2024, 53) is a week number that year does not have; (2024, 1) lies far
\* outside every window below; one row has no week number.
CovRows ==
    {Row(yw[1], yw[2], st, 3, 10, 1) :
        yw \in {<<2024, 1>>, <<2024, 52>>, <<2024, 53>>, <<2025, 1>>, <<2025, Null>>},
        st \in {"Lagos", "Edo"}}

CovDates ==
    {NaNDate, DateOf(2024, 12, 23), DateOf(2024, 12, 29), DateOf(2025, 1, 1), DateOf(2025, 1, 8)}

CovStates == {<<>>, <<"Edo">>}

\* one week, five states, confirmed totals that can be zero, tie or differ
MaxTopRows == 4

TopRows ==
    {Row(2025, 1, st, 0, c, 0) : st \in {"Lagos", "Edo", "Ondo", "Bauchi", "Taraba"}, c \in {0, 1, 2}}

TopDates == {DateOf(2025, 1, 1)}

\* one week, four states, confirmed totals from none to thousands
MaxShareRows == 3

ShareRows ==
    {Row(2025, 1, st, 0, c, 0) : st \in {"Lagos", "Edo", "Ondo", "Bauchi"}, c \in {0, 1, 4, 3000}}

\* two invocations over a table that grows between them
MaxPublished == 2

PairRows ==
    {Row(2025, 1, "Edo", 3, 10, 1), Row(2024, 52, "Lagos", 1, 2, 0), Row(2025, 1, "Ondo", 0, 4, 0)}

PairDates == {DateOf(2024, 12, 23), DateOf(2025, 1, 1)}

\* a table in which the upstream left the "Total" pseudo-state rows, next to
\* the rows of a real state; the "Total" rows grow by 40 from week 1 to week 2
TotalRows ==
    {Row(2025, 1, "Edo", 3, 10, 1), Row(2025, 2, "Edo", 4, 20, 1),
     Row(2025, 1, TotalState, 9, 30, 3), Row(2025, 2, TotalState, 12, 70, 4)}

TotalDates == {DateOf(2025, 1, 1), DateOf(2025, 1, 5), DateOf(2025, 1, 12)}

TotalFilters == {<<>>, <<TotalState>>, <<"Edo", TotalState>>}

\* a range of whole ISO weeks from Monday 2025-01-06 (2025-W02) on, with at
\* most one row per week and state; Edo reports 10 or 40 confirmed cases,
\* Lagos 35
ScanWeeks == 4

ScanStates == <<"Edo", "Lagos">>

ScanConfirmed == [Edo |-> {10, 40}, Lagos |-> {35}]

\* the (week, state) cells of the table in primary-key order, each with the
\* confirmed counts a row in it can hold
ScanCells ==
    [k \in 1..(ScanWeeks * Len(ScanStates)) |->
        LET state == ScanStates[1 + ((k - 1) % Len(ScanStates))]
        IN  [week |-> 2 + ((k - 1) \div Len(ScanStates)), state |-> state, confirmed |-> ScanConfirmed[state]]]

\* the tables over the first n cells, a row present or absent in each cell
RECURSIVE GridTables(_, _)
GridTables(cells, n) ==
    IF n = 0 THEN {<<>>}
    ELSE LET shorter == GridTables(cells, n - 1)
         IN  shorter \cup {Append(t, Row(2025, cells[n].week, cells[n].state, c, c, 0)) :
                               t \in shorter, c \in cells[n].confirmed}

ScanStart == DateOf(2025, 1, 6)

\* the Sundays ending a range of 4 weeks and a range of ScanWeeks weeks
ScanEnds == {addDays(ScanStart, 27), addDays(ScanStart, 7 * ScanWeeks - 1)}

\* four states from 2025-W02 on: Edo with GrowWeeks weeks of 10 or 40
\* confirmed cases, the others with two weeks each; between its two weeks
\* Lagos can rise by 20 or stay, Ondo rise by 10 or fall by 40, Bauchi rise by 40
GrowWeeks == 3

GrowCells ==
    [k \in 1..GrowWeeks |-> [week |-> 1 + k, state |-> "Edo", confirmed |-> {10, 40}]]
    \o << [week |-> 2, state |-> "Lagos", confirmed |-> {10}],
          [week |-> 3, state |-> "Lagos", confirmed |-> {10, 30}],
          [week |-> 2, state |-> "Ondo", confirmed |-> {10, 60}],
          [week |-> 3, state |-> "Ondo", confirmed |-> {20}],
          [week |-> 2, state |-> "Bauchi", confirmed |-> {10}],
          [week |-> 3, state |-> "Bauchi", confirmed |-> {50}] >>

GrowStates == {"Edo", "Lagos", "Ondo", "Bauchi"}

GrowEnd == addDays(ScanStart, 7 * GrowWeeks - 1)

\* the report route: a table with rows in the window and before it
MaxRouteRows == 2

RouteRows ==
    {Row(2025, 1, "Edo", 3, 10, 1), Row(2024, 52, "Lagos", 1, 2, 0), Row(2024, 51, "Edo", 2, 4, 0)}

RouteDates ==
    {NaNDate, DateOf(2024, 12, 23), DateOf(2025, 1, 1), DateOf(2025, 1, 5), DateOf(2027, 2, 1)}

RouteStates == {<<>>, <<"Edo">>}

SummaryRow(c, pc) ==
    [total_confirmed |-> c, total_suspected |-> 2 * c, total_deaths |-> 1,
     previous_confirmed |-> pc, previous_suspected |-> pc, previous_deaths |-> 0]

\* what the get_lassa_summary RPC can answer
SummaryOutcomes ==
    {[error |-> TRUE, rows |-> <<>>], [error |-> FALSE, rows |-> <<>>]}
        \cup {[error |-> FALSE, rows |-> <<SummaryRow(c, pc)>>] : c \in {0, 12}, pc \in {0, 6}}

ReportOutcomes == {"report", "ReportGenerationError", "Error"}

PctInputs ==
    {NullNum, Num(0 - 100), Num(0 - 50), Num(0), Num(5), Num(50), Num(100), Num(150),
     Rat(1, 2), Rat(7, 2), Rat(0 - 10, 3)}

\* ------------------------------------------------------------------------
\* fetchWeeklyCoverage as a process: it suspends once, at `await query`.
\* call[i].rows is the content of the maps the invocation has filled;
\* call[i].overlapped records that another invocation was suspended at its
\* query when this one ran its synchronous part.

idleCall ==
    [ pc |-> "idle", startDate |-> NaNDate, endDate |-> NaNDate, states |-> <<>>,
      queries |-> 0, error |-> FALSE, data |-> <<>>, rows |-> <<>>,
      overlapped |-> FALSE, result |-> emptyResult ]

idlePct == [pc |-> "idle", current |-> NullNum, previous |-> NullNum, out |-> NullNum]

othersSuspended(i) == \E j \in DOMAIN call \ {i} : call[j].pc = "awaitQuery"

\* variant: the maps hoisted to module level, still holding what an earlier invocation put there
newAccumulator_shared(i) ==
    IF \E j \in DOMAIN call \ {i} : call[j].pc = "returned"
    THEN call[CHOOSE j \in DOMAIN call \ {i} : call[j].pc = "returned"].rows
    ELSE <<>>

\* lines 226-229: `new Set()`, `new Map()` -- every invocation starts from empty maps
newAccumulator(i) == <<>>

\* lines 174-219: parse the arguments, return early or issue the query
CoverageBegin(i, startISO, endISO, states) ==
    /\ call[i].pc = "idle"
    /\ call' = [call EXCEPT ![i] =
          IF isDegenerate(startISO, endISO)
          THEN [@ EXCEPT !.pc = "returned", !.startDate = startISO, !.endDate = endISO,
                         !.states = states, !.result = emptyResult]
          ELSE [@ EXCEPT !.pc = "awaitQuery", !.startDate = startISO, !.endDate = endISO,
                         !.states = states, !.queries = @ + 1]]
    /\ UNCHANGED <<db, pct, req, env, limiterVars>>

\* lines 219-412: the query resolves with rows
CoverageQueryOk(i) ==
    /\ call[i].pc = "awaitQuery"
    /\ LET c == call[i]
           data == runQuery(db, yearsToFetch(c.startDate, c.endDate), stateFiltersOf(c.states))
           rows == newAccumulator(i) \o acceptedRows(data, c.startDate, c.endDate)
       IN  call' = [call EXCEPT ![i] =
              [@ EXCEPT !.pc = "returned", !.data = data, !.rows = rows,
                        !.overlapped = othersSuspended(i),
                        !.result = resultFromRows(rows, c.startDate, c.endDate)]]
    /\ UNCHANGED <<db, pct, req, env, limiterVars>>

\* lines 219-224: the query resolves with an error
CoverageQueryError(i) ==
    /\ call[i].pc = "awaitQuery"
    /\ call' = [call EXCEPT ![i] =
          [@ EXCEPT !.pc = "returned", !.error = TRUE, !.overlapped = othersSuspended(i),
                    !.result = emptyResult]]
    /\ UNCHANGED <<db, pct, req, env, limiterVars>>

\* the upstream publishes one more weekly record
PublishRow(row) ==
    /\ Len(db) < MaxPublished
    /\ \A k \in 1..Len(db) : ~sameRecord(db[k], row)
    /\ db' = Append(db, row)
    /\ UNCHANGED <<call, pct, req, env, limiterVars>>

\* one evaluation of calculatePercentageChange
PctCall(current, previous) ==
    /\ pct.pc = "idle"
    /\ pct' = [pc |-> "done", current |-> current, previous |-> previous,
               out |-> calculatePercentageChange(current, previous)]
    /\ UNCHANGED <<db, call, req, env, limiterVars>>

\* ------------------------------------------------------------------------
\* lib/reports.ts

NoSummary == [present |-> FALSE]

\* lines 65-104: null on an RPC error or an empty result, else the summary of row 0
fetchLassaSummaryResult(outcome) ==
    IF outcome.error \/ outcome.rows = <<>> THEN NoSummary
    ELSE LET row == outcome.rows[1]
             totals == [confirmed |-> row.total_confirmed, suspected |-> row.total_suspected,
                        deaths |-> row.total_deaths]
             previous == [confirmed |-> row.previous_confirmed, suspected |-> row.previous_suspected,
                          deaths |-> row.previous_deaths]
         IN  [ present |-> TRUE,
               totals |-> totals,
               previousTotals |-> previous,
               deltas |-> [ confirmed |-> calculatePercentageChange(Num(totals.confirmed), Num(previous.confirmed)),
                            suspected |-> calculatePercentageChange(Num(totals.suspected), Num(previous.suspected)),
                            deaths |-> calculatePercentageChange(Num(totals.deaths), Num(previous.deaths)) ] ]

\* ------------------------------------------------------------------------
\* lib/llm/report_client.ts

\* REPORT_LLM_PROVIDER is unset or names a provider; a key is set or not
\* (GEMINI_API_KEY stands for GEMINI_API_KEY ?? GOOGLE_GEMINI_API_KEY)
Environments ==
    [REPORT_LLM_PROVIDER : {"", "openai", "gemini"}, OPENAI_API_KEY : BOOLEAN, GEMINI_API_KEY : BOOLEAN]

defaultEnv == [REPORT_LLM_PROVIDER |-> "", OPENAI_API_KEY |-> TRUE, GEMINI_API_KEY |-> FALSE]

resolveProviderFromEnv ==
    IF env.REPORT_LLM_PROVIDER \in {"gemini", "openai"} THEN env.REPORT_LLM_PROVIDER ELSE "openai"

\* getOpenAIConfig / getGeminiConfig do not throw
apiKeyConfigured ==
    IF resolveProviderFromEnv = "openai" THEN env.OPENAI_API_KEY ELSE env.GEMINI_API_KEY

\* ------------------------------------------------------------------------
\* app/api/report/route.ts

MAX_RANGE_DAYS == 732

NoMetrics == [present |-> FALSE]

idleReq ==
    [ pc |-> "idle", startDate |-> NaNDate, endDate |-> NaNDate, states |-> <<>>,
      summaryFetches |-> 0, coverageFetches |-> 0, reportCalls |-> 0,
      summaryFailed |-> FALSE, coverageFailed |-> FALSE, previousCoverageFailed |-> FALSE,
      summary |-> NoSummary, coverage |-> emptyResult, previousCoverage |-> emptyResult,
      previousStartDate |-> NaNDate, previousEndDate |-> NaNDate,
      metrics |-> NoMetrics, status |-> 0, response |-> "none" ]

\* Math.max(1, Math.ceil(totalDays / 7))
totalWeeksCeilOf(totalDays) == Max2(1, (totalDays + 6) \div 7)

\* fetchWeeklyCoverage awaited by the route: the empty result when the
\* query fails (lines 221-224 of lib/data.ts), else the result built from the rows
coverageOutcome(ok, startDate, endDate, states) ==
    IF isDegenerate(startDate, endDate) \/ ~ok THEN emptyResult
    ELSE coverageFromData(runQuery(db, yearsToFetch(startDate, endDate), stateFiltersOf(states)),
                          startDate, endDate)

\* lines 78-107 and 122-134: the denominators, averages and deltas of the payload
reportMetrics(summary, coverage, previousCoverage, totalWeeksCeil) ==
    LET weeksReported == IF Len(coverage.availableWeekLabels) > 0
                         THEN Len(coverage.availableWeekLabels) ELSE totalWeeksCeil
        totalWeeks == IF coverage.totalWeeks # Null THEN coverage.totalWeeks ELSE totalWeeksCeil
        coverageRatio == IF coverage.coverageRatio # Null THEN coverage.coverageRatio
                         ELSE toFixed3(weeksReported, totalWeeks)
        previousTotalWeeks == IF previousCoverage.totalWeeks # Null
                              THEN previousCoverage.totalWeeks ELSE totalWeeksCeil
        previousWeeksReported == IF Len(previousCoverage.availableWeekLabels) > 0
                                 THEN Len(previousCoverage.availableWeekLabels) ELSE previousTotalWeeks
        averages == [ confirmed |-> Rat(summary.totals.confirmed, weeksReported),
                      suspected |-> Rat(summary.totals.suspected, weeksReported),
                      deaths |-> Rat(summary.totals.deaths, weeksReported) ]
        previousAverages == [ confirmed |-> Rat(summary.previousTotals.confirmed, previousWeeksReported),
                              suspected |-> Rat(summary.previousTotals.suspected, previousWeeksReported),
                              deaths |-> Rat(summary.previousTotals.deaths, previousWeeksReported) ]
    IN  [ present |-> TRUE,
          totals |-> summary.totals,
          averages |-> averages,
          previousAverages |-> previousAverages,
          deltas |-> [ confirmed |-> calculatePercentageChange(averages.confirmed, previousAverages.confirmed),
                       suspected |-> calculatePercentageChange(averages.suspected, previousAverages.suspected),
                       deaths |-> calculatePercentageChange(averages.deaths, previousAverages.deaths) ],
          weeksReported |-> weeksReported,
          previousWeeksReported |-> previousWeeksReported,
          totalWeeks |-> totalWeeks,
          coverageRatio |-> coverageRatio,
          missingWeeks |-> coverage.missingWeekLabels,
          topContributors |-> coverage.topContributors,
          fastestGrowers |-> coverage.fastestGrowers,
          alertFlags |-> coverage.alertFlags,
          notableSignals |-> coverage.notableSignals ]

\* variant: the `endDate < startDate` rejection left out
RouteReceive_noOrderCheck(bodyStart, bodyEnd, bodyStates) ==
    /\ req.pc = "idle"
    /\ LET parsed == [req EXCEPT !.startDate = bodyStart, !.endDate = bodyEnd, !.states = bodyStates]
       IN  req' =
             IF bodyStart = NaNDate \/ bodyEnd = NaNDate
             THEN [parsed EXCEPT !.pc = "done", !.status = 400, !.response = "dates-required"]
             ELSE IF differenceInDays(bodyEnd, bodyStart) > MAX_RANGE_DAYS
             THEN [parsed EXCEPT !.pc = "done", !.status = 400, !.response = "range-too-long"]
             ELSE [parsed EXCEPT !.pc = "awaitSummary", !.summaryFetches = @ + 1]
    /\ UNCHANGED <<db, call, pct, env, limiterVars>>

\* lines 17-50: parse and validate the body, then start the summary RPC
RouteReceive(bodyStart, bodyEnd, bodyStates) ==
    /\ req.pc = "idle"
    /\ LET startDate == bodyStart
           endDate == bodyEnd
           parsed == [req EXCEPT !.startDate = startDate, !.endDate = endDate, !.states = bodyStates]
       IN  req' =
             IF startDate = NaNDate \/ endDate = NaNDate
             THEN [parsed EXCEPT !.pc = "done", !.status = 400, !.response = "dates-required"]
             ELSE IF endDate < startDate
             THEN [parsed EXCEPT !.pc = "done", !.status = 400, !.response = "end-before-start"]
             ELSE IF differenceInDays(endDate, startDate) > MAX_RANGE_DAYS
             THEN [parsed EXCEPT !.pc = "done", !.status = 400, !.response = "range-too-long"]
             ELSE [parsed EXCEPT !.pc = "awaitSummary", !.summaryFetches = @ + 1]
    /\ UNCHANGED <<db, call, pct, env, limiterVars>>

\* lines 46-69: the summary arrives; answer "no data" or start the coverage of the window
RouteSummary(outcome) ==
    /\ req.pc = "awaitSummary"
    /\ LET summary == fetchLassaSummaryResult(outcome)
       IN  req' =
             IF ~summary.present
             THEN [req EXCEPT !.pc = "done", !.summaryFailed = outcome.error,
                              !.status = 200, !.response = "no-data"]
             ELSE [req EXCEPT !.pc = "awaitCoverage", !.summary = summary,
                              !.coverageFetches = @ + 1]
    /\ UNCHANGED <<db, call, pct, env, limiterVars>>

\* variant: the previous window reaching back totalDays days from its end, one day too many
RouteCoverage_longPrevious(ok) ==
    /\ req.pc = "awaitCoverage"
    /\ LET totalDays == differenceInDays(req.endDate, req.startDate) + 1
           previousEndDate == addDays(req.startDate, 0 - 1)
           previousStartDate == addDays(previousEndDate, 0 - totalDays)
       IN  req' = [req EXCEPT !.pc = "awaitPrevCoverage",
                              !.coverage = coverageOutcome(ok, req.startDate, req.endDate, req.states),
                              !.coverageFailed = ~ok,
                              !.previousStartDate = previousStartDate,
                              !.previousEndDate = previousEndDate,
                              !.coverageFetches = @ + 1]
    /\ UNCHANGED <<db, call, pct, env, limiterVars>>

\* lines 65-76: the coverage of the window arrives; start the coverage of the previous window
RouteCoverage(ok) ==
    /\ req.pc = "awaitCoverage"
    /\ LET totalDays == differenceInDays(req.endDate, req.startDate) + 1
           previousEndDate == addDays(req.startDate, 0 - 1)
           previousStartDate == addDays(previousEndDate, 0 - (totalDays - 1))
       IN  req' = [req EXCEPT !.pc = "awaitPrevCoverage",
                              !.coverage = coverageOutcome(ok, req.startDate, req.endDate, req.states),
                              !.coverageFailed = ~ok,
                              !.previousStartDate = previousStartDate,
                              !.previousEndDate = previousEndDate,
                              !.coverageFetches = @ + 1]
    /\ UNCHANGED <<db, call, pct, env, limiterVars>>

\* lines 72-135: the previous coverage arrives; build the payload and call the generator
RoutePreviousCoverage(ok) ==
    /\ req.pc = "awaitPrevCoverage"
    /\ LET totalDays == differenceInDays(req.endDate, req.startDate) + 1
           previousCoverage == coverageOutcome(ok, req.previousStartDate, req.previousEndDate, req.states)
       IN  req' = [req EXCEPT !.pc = "awaitReport",
                              !.previousCoverage = previousCoverage,
                              !.previousCoverageFailed = ~ok,
                              !.metrics = reportMetrics(req.summary, req.coverage, previousCoverage,
                                                        totalWeeksCeilOf(totalDays)),
                              !.reportCalls = @ + 1]
    /\ UNCHANGED <<db, call, pct, env, limiterVars>>

\* variant: the generator called without looking for the API key
RouteReport_keyUnchecked(outcome) ==
    /\ req.pc = "awaitReport"
    /\ req' = IF outcome = "report"
              THEN [req EXCEPT !.pc = "done", !.status = 200, !.response = "report"]
              ELSE IF outcome = "ReportGenerationError"
              THEN [req EXCEPT !.pc = "done", !.status = 500, !.response = "generation-error"]
              ELSE [req EXCEPT !.pc = "done", !.status = 500, !.response = "unexpected-error"]
    /\ UNCHANGED <<db, call, pct, env, limiterVars>>

\* lines 117-154: the generator returns or throws; generateWithOpenAI and
\* generateWithGemini throw before any request when the key is not set
RouteReport(outcome) ==
    /\ req.pc = "awaitReport"
    /\ req' = IF ~apiKeyConfigured
              THEN [req EXCEPT !.pc = "done", !.status = 500, !.response = "not-configured"]
              ELSE IF outcome = "report"
              THEN [req EXCEPT !.pc = "done", !.status = 200, !.response = "report"]
              ELSE IF outcome = "ReportGenerationError"
              THEN [req EXCEPT !.pc = "done", !.status = 500, !.response = "generation-error"]
              ELSE [req EXCEPT !.pc = "done", !.status = 500, !.response = "unexpected-error"]
    /\ UNCHANGED <<db, call, pct, env, limiterVars>>

\* ------------------------------------------------------------------------
\* lib/rate-limit.ts
\*
\* A key is the sequence of its characters, as far as the code looks at
\* them: a piece is either white space (" ") or not.  Times are in
\* milliseconds.  memoryStore and upstash are Maps: functions whose domain
\* is the set of keys they hold.  An Upstash key whose expireAt is Null has
\* no expiry; one whose expireAt has passed is gone.

put(store, key, entry) ==
    [k \in DOMAIN store \cup {key} |-> IF k = key THEN entry ELSE store[k]]

isUpstashConfigured == limiter.configured

normalizeKey(key) == SelectSeq(key, LAMBDA c : c # " ")

normalizedLimitOf(limit) == Max2(1, limit)

normalizedWindowOf(windowSeconds) == Max2(1, windowSeconds)

\* Redis: a key is held while it has no expiry or its expiry lies ahead.
upstashHolds(store, key, t) ==
    /\ key \in DOMAIN store
    /\ (store[key].expireAt = Null \/ store[key].expireAt > t)

\* Redis INCR: a key that is not held starts at 1 without an expiry.
upstashINCR(store, key, t) ==
    IF upstashHolds(store, key, t)
    THEN put(store, key, [store[key] EXCEPT !.count = @ + 1])
    ELSE put(store, key, [count |-> 1, expireAt |-> Null])

\* Redis TTL of a held key, in seconds (rounded as Redis does); -1 without expiry.
upstashTTL(store, key, t) ==
    IF store[key].expireAt = Null THEN 0 - 1
    ELSE (store[key].expireAt - t + 500) \div 1000

\* Redis EXPIRE: no effect on a key that is not held.
upstashEXPIRE(store, key, seconds, t) ==
    IF upstashHolds(store, key, t)
    THEN put(store, key, [store[key] EXCEPT !.expireAt = t + seconds * 1000])
    ELSE store

memoryWindowOver_strict(store, key, t) ==
    key \notin DOMAIN store \/ store[key].resetAt < t

\* memoryRateLimit, the test `!existing || existing.resetAt <= now`
memoryWindowOver(store, key, t) ==
    key \notin DOMAIN store \/ store[key].resetAt <= t

\* memoryRateLimit: the Map after the call
memoryStoreAfter(store, key, windowSeconds, t) ==
    IF memoryWindowOver(store, key, t)
    THEN put(store, key, [count |-> 1, resetAt |-> t + Max2(1, windowSeconds * 1000)])
    ELSE put(store, key, [store[key] EXCEPT !.count = @ + 1])

\* memoryRateLimit: the result of the call
memoryRateLimit(store, key, limit, windowSeconds, t) ==
    LET normalizedLimit == Max2(1, limit)
        after == memoryStoreAfter(store, key, windowSeconds, t)[key]
    IN  IF memoryWindowOver(store, key, t)
        THEN [allowed |-> TRUE, limit |-> normalizedLimit,
              remaining |-> Max2(0, normalizedLimit - 1), resetAt |-> after.resetAt]
        ELSE [allowed |-> after.count <= normalizedLimit, limit |-> normalizedLimit,
              remaining |-> Max2(0, normalizedLimit - after.count),
              resetAt |-> after.resetAt]

\* rateLimit: the result built from upstashIncrement's count and ttl
upstashResult(count, ttl, limit, t) ==
    [allowed |-> count <= limit, limit |-> limit,
     remaining |-> Max2(0, limit - count), resetAt |-> t + ttl * 1000]

noResult ==
    [allowed |-> FALSE, limit |-> 0, remaining |-> 0, resetAt |-> 0]

\* A caller of rateLimit.  `at` and `store` record when the call was counted
\* and which store counted it last.
idleCaller ==
    [pc |-> "idle", handler |-> "none", key |-> <<>>, count |-> 0,
     at |-> 0, store |-> "none", result |-> noResult, bodyRead |-> FALSE, queried |-> FALSE,
     status |-> 0, retryAfter |-> Null]

noTraffic == [received |-> 0, data |-> <<>>]

\* The state in which nothing of the limiter is in use.
limiterIdle ==
    /\ now = 0
    /\ memoryStore = <<>>
    /\ upstash = <<>>
    /\ caller = <<>>
    /\ limiter = [configured |-> FALSE, limit |-> 1, windowSeconds |-> 1]
    /\ traffic = noTraffic

\* Bounds of the limiter on its own: calls, limit, window and clock (seconds).
MemCalls == 5

MemLimit == 2

MemWindowSeconds == 2

MemHorizon == 4

\* Bounds with Upstash: calls, limit and clock (seconds).
UpstashCalls == 3

UpstashLimit == 2

UpstashHorizon == 2

\* At most two calls overlap.
MaxInFlight == Min2(2, UpstashCalls)

\* One key, written with and without white space.
LimiterKeys == {<<"k">>, <<" ", "k", " ">>}

Callers == DOMAIN caller

\* A caller is in flight between its call and the last step of its handler.
inFlight(c) ==
    \/ c.pc \in {"pipeline", "expire", "body", "query"}
    \/ c.pc = "returned" /\ c.handler = "download"

\* Callers are numbered in the order of their calls.
mayBegin(p, maxInFlight) ==
    /\ caller[p].pc = "idle"
    /\ \A q \in Callers : q < p => caller[q].pc # "idle"
    /\ Cardinality({q \in Callers : inFlight(caller[q])}) < maxInFlight

\* rateLimit returns result r to caller p (its locals are gone)
returned(p, r) == [caller EXCEPT ![p].pc = "returned", ![p].count = 0, ![p].result = r]

\* rateLimit, from its entry to the first await: without Upstash the whole
\* call (memoryRateLimit is synchronous), with Upstash up to the request
\* that carries the INCR and TTL commands.
rateLimitEnter(p, key, handler) ==
    LET k == normalizeKey(key)
        limit == normalizedLimitOf(limiter.limit)
        window == normalizedWindowOf(limiter.windowSeconds)
        entered == [caller EXCEPT ![p].handler = handler, ![p].key = k]
    IN  IF isUpstashConfigured
        THEN /\ caller' = [entered EXCEPT ![p].pc = "pipeline"]
             /\ UNCHANGED memoryStore
        ELSE /\ memoryStore' = memoryStoreAfter(memoryStore, k, window, now)
             /\ caller' = [entered EXCEPT ![p].pc = "returned",
                               ![p].at = now, ![p].store = "memory",
                               ![p].result = memoryRateLimit(memoryStore, k, limit, window, now)]

\* rateLimit, the catch block and the line after it: the memory store answers.
fallBack(p) ==
    LET k == caller[p].key
        limit == normalizedLimitOf(limiter.limit)
        window == normalizedWindowOf(limiter.windowSeconds)
    IN  /\ memoryStore' = memoryStoreAfter(memoryStore, k, window, now)
        /\ caller' = [returned(p, memoryRateLimit(memoryStore, k, limit, window, now))
                          EXCEPT ![p].at = now, ![p].store = "memory"]

\* A request to Upstash ends in one of three ways: the commands run and the
\* reply arrives ("ok"), the commands run and the reply is lost or is not ok
\* ("lost"), the commands never run ("unreached").
UpstashOutcomes == {"ok", "lost", "unreached"}

\* A caller calls rateLimit on its own (no route around it).
RateLimitCall(p, key, maxInFlight) ==
    /\ mayBegin(p, maxInFlight)
    /\ rateLimitEnter(p, key, "none")
    /\ UNCHANGED <<engineVars, now, upstash, limiter, traffic>>

\* upstashIncrement, the request [["INCR", key], ["TTL", key]]
UpstashPipeline(p, outcome) ==
    /\ caller[p].pc = "pipeline"
    /\ LET k == caller[p].key
           limit == normalizedLimitOf(limiter.limit)
           ran == upstashINCR(upstash, k, now)
           count == ran[k].count
           ttl == upstashTTL(ran, k, now)
       IN  /\ upstash' = IF outcome = "unreached" THEN upstash ELSE ran
           /\ IF outcome # "ok"
              THEN fallBack(p)
              ELSE /\ UNCHANGED memoryStore
                   /\ LET counted == [caller EXCEPT ![p].at = now, ![p].store = "upstash",
                                                     ![p].count = count]
                      IN  IF ttl < 0
                          THEN caller' = [counted EXCEPT ![p].pc = "expire"]
                          ELSE caller' = [counted EXCEPT ![p].pc = "returned", ![p].count = 0,
                                              ![p].result = upstashResult(count, ttl, limit, now)]
    /\ UNCHANGED <<engineVars, now, limiter, traffic>>

\* upstashIncrement, the request ["EXPIRE", key, windowSeconds]
UpstashExpire(p, outcome) ==
    /\ caller[p].pc = "expire"
    /\ LET k == caller[p].key
           limit == normalizedLimitOf(limiter.limit)
           window == normalizedWindowOf(limiter.windowSeconds)
       IN  /\ upstash' = IF outcome = "unreached" THEN upstash
                         ELSE upstashEXPIRE(upstash, k, window, now)
           /\ IF outcome # "ok"
              THEN fallBack(p)
              ELSE /\ UNCHANGED memoryStore
                   /\ caller' = returned(p, upstashResult(caller[p].count, window, limit, now))
    /\ UNCHANGED <<engineVars, now, limiter, traffic>>

\* The clock moves on by a number of seconds, up to a horizon.
Tick(seconds, horizonSeconds) ==
    /\ now + seconds * 1000 <= horizonSeconds * 1000
    /\ now' = now + seconds * 1000
    /\ UNCHANGED <<engineVars, memoryStore, upstash, caller, limiter, traffic>>

\* ------------------------------------------------------------------------
\* ------------------------------------------------------------------------
\* app/api/data/download/route.ts
\*
\* Of a request the model keeps the address headers and what its body
\* parses to; of a response the status and the Retry-After header.

DOWNLOAD_RATE_LIMIT == [limit |-> 5, windowSeconds |-> 60]

\* Bounds of the download route: requests and clock (seconds).
DownloadCalls == 6

DownloadHorizon == 60

\* Headers of one client as the server may see them: forwardedFor is the
\* comma-separated list of x-forwarded-for (or x-vercel-forwarded-for),
\* empty when neither is set; realIp is x-real-ip (or cf-connecting-ip),
\* "absent" when neither is set.
DownloadHeaders ==
    {[forwardedFor |-> <<"1.1.1.1">>, realIp |-> "absent"],
     [forwardedFor |-> <<"1.1.1.1", "10.0.0.1">>, realIp |-> "10.0.0.1"],
     [forwardedFor |-> <<>>, realIp |-> "1.1.1.1"]}

\* What request.json() and the checks of the body come to.
DownloadBodies == {"invalid-json", "no-year", "no-weeks", "no-valid-weeks", "valid"}

getClientIp(headers) ==
    IF headers.forwardedFor # <<>>
    THEN IF headers.forwardedFor[1] = "" THEN "unknown" ELSE headers.forwardedFor[1]
    ELSE IF headers.realIp = "absent" THEN "unknown" ELSE headers.realIp

downloadKey(headers) == <<"api:data:download:", getClientIp(headers)>>

\* Math.max(0, Math.ceil((resetAt - Date.now()) / 1000))
retryAfterSecondsOf(resetAt, t) ==
    Max2(0, 0 - ((t - resetAt) \div 1000))

\* One more data response for a request that the limiter counted at time t.
dataCounted(data, t) ==
    [u \in DOMAIN data \cup {t} |-> IF u = t THEN (IF t \in DOMAIN data THEN data[t] + 1 ELSE 1)
                                     ELSE data[u]]

\* POST, up to the first await inside rateLimit.
DownloadReceive(p, headers) ==
    /\ traffic.received < DownloadCalls
    /\ mayBegin(p, MaxInFlight)
    /\ rateLimitEnter(p, downloadKey(headers), "download")
    /\ traffic' = [traffic EXCEPT !.received = @ + 1]
    /\ UNCHANGED <<engineVars, now, upstash, limiter>>

\* POST, the lines after rateLimit has answered: 429 or on to the body.
DownloadDecide(p) ==
    /\ caller[p].pc = "returned"
    /\ caller[p].handler = "download"
    /\ LET rateLimitResult == caller[p].result
       IN  caller' =
               IF ~rateLimitResult.allowed
               THEN [caller EXCEPT ![p].pc = "responded", ![p].status = 429,
                         ![p].retryAfter = retryAfterSecondsOf(rateLimitResult.resetAt, now)]
               ELSE [caller EXCEPT ![p].pc = "body"]
    /\ UNCHANGED <<engineVars, now, memoryStore, upstash, limiter, traffic>>

\* POST, request.json() and the checks of year and weeks.
DownloadBody(p, body) ==
    /\ caller[p].pc = "body"
    /\ caller' =
           IF body = "invalid-json"
           THEN [caller EXCEPT ![p].pc = "responded", ![p].bodyRead = TRUE, ![p].status = 500]
           ELSE IF body = "valid"
           THEN [caller EXCEPT ![p].pc = "query", ![p].bodyRead = TRUE]
           ELSE [caller EXCEPT ![p].pc = "responded", ![p].bodyRead = TRUE, ![p].status = 400]
    /\ UNCHANGED <<engineVars, now, memoryStore, upstash, limiter, traffic>>

\* POST, the query on lassa_data and the CSV response.
DownloadQuery(p, ok) ==
    /\ caller[p].pc = "query"
    /\ caller' = [caller EXCEPT ![p].pc = "responded", ![p].queried = TRUE,
                      ![p].status = IF ok THEN 200 ELSE 500]
    /\ traffic' = IF ok THEN [traffic EXCEPT !.data = dataCounted(traffic.data, caller[p].at)]
                  ELSE traffic
    /\ UNCHANGED <<engineVars, now, memoryStore, upstash, limiter>>

\* The response is on its way and the handler is over: the slot is free.
DownloadClose(p) ==
    /\ caller[p].pc = "responded"
    /\ caller' = [caller EXCEPT ![p] = idleCaller]
    /\ UNCHANGED <<engineVars, now, memoryStore, upstash, limiter, traffic>>

\* Specifications

InitCov ==
    /\ db \in TablesUpTo(CovRows, MaxRows)
    /\ call = [i \in {1} |-> idleCall]
    /\ pct = idlePct
    /\ req = idleReq
    /\ env = defaultEnv
    /\ limiterIdle

NextCov ==
    \/ \E i \in DOMAIN call, s \in CovDates, e \in CovDates, st \in CovStates : CoverageBegin(i, s, e, st)
    \/ \E i \in DOMAIN call : CoverageQueryOk(i)
    \/ \E i \in DOMAIN call : CoverageQueryError(i)

SpecCov == InitCov /\ [][NextCov]_vars

InitTop ==
    /\ db \in TablesUpTo(TopRows, MaxTopRows)
    /\ call = [i \in {1} |-> idleCall]
    /\ pct = idlePct
    /\ req = idleReq
    /\ env = defaultEnv
    /\ limiterIdle

NextTop ==
    \/ \E i \in DOMAIN call, s \in TopDates, e \in TopDates : CoverageBegin(i, s, e, <<>>)
    \/ \E i \in DOMAIN call : CoverageQueryOk(i)
    \/ \E i \in DOMAIN call : CoverageQueryError(i)

SpecTop == InitTop /\ [][NextTop]_vars

InitPair ==
    /\ db = <<>>
    /\ call = [i \in {1, 2} |-> idleCall]
    /\ pct = idlePct
    /\ req = idleReq
    /\ env = defaultEnv
    /\ limiterIdle

NextPair ==
    \/ \E i \in DOMAIN call, s \in PairDates, e \in PairDates : CoverageBegin(i, s, e, <<>>)
    \/ \E i \in DOMAIN call : CoverageQueryOk(i)
    \/ \E i \in DOMAIN call : CoverageQueryError(i)
    \/ \E row \in PairRows : PublishRow(row)

SpecPair == InitPair /\ [][NextPair]_vars

InitPct ==
    /\ db = <<>>
    /\ call = [i \in {1} |-> idleCall]
    /\ pct = idlePct
    /\ req = idleReq
    /\ env = defaultEnv
    /\ limiterIdle

NextPct == \E current \in PctInputs, previous \in PctInputs : PctCall(current, previous)

SpecPct == InitPct /\ [][NextPct]_vars

InitTotal ==
    /\ db \in TablesUpTo(TotalRows, MaxRows)
    /\ call = [i \in {1} |-> idleCall]
    /\ pct = idlePct
    /\ req = idleReq
    /\ env = defaultEnv
    /\ limiterIdle

NextTotal ==
    \/ \E i \in DOMAIN call, s \in TotalDates, e \in TotalDates, st \in TotalFilters :
           CoverageBegin(i, s, e, st)
    \/ \E i \in DOMAIN call : CoverageQueryOk(i)
    \/ \E i \in DOMAIN call : CoverageQueryError(i)

SpecTotal == InitTotal /\ [][NextTotal]_vars

InitScan ==
    /\ db \in GridTables(ScanCells, Len(ScanCells))
    /\ call = [i \in {1} |-> idleCall]
    /\ pct = idlePct
    /\ req = idleReq
    /\ env = defaultEnv
    /\ limiterIdle

NextScan ==
    \/ \E i \in DOMAIN call, e \in ScanEnds : CoverageBegin(i, ScanStart, e, <<>>)
    \/ \E i \in DOMAIN call : CoverageQueryOk(i)
    \/ \E i \in DOMAIN call : CoverageQueryError(i)

SpecScan == InitScan /\ [][NextScan]_vars

InitShare ==
    /\ db \in TablesUpTo(ShareRows, MaxShareRows)
    /\ call = [i \in {1} |-> idleCall]
    /\ pct = idlePct
    /\ req = idleReq
    /\ env = defaultEnv
    /\ limiterIdle

NextShare ==
    \/ \E i \in DOMAIN call, s \in TopDates, e \in TopDates : CoverageBegin(i, s, e, <<>>)
    \/ \E i \in DOMAIN call : CoverageQueryOk(i)
    \/ \E i \in DOMAIN call : CoverageQueryError(i)

SpecShare == InitShare /\ [][NextShare]_vars

InitGrow ==
    /\ db \in GridTables(GrowCells, Len(GrowCells))
    /\ call = [i \in {1} |-> idleCall]
    /\ pct = idlePct
    /\ req = idleReq
    /\ env = defaultEnv
    /\ limiterIdle

NextGrow ==
    \/ \E i \in DOMAIN call : CoverageBegin(i, ScanStart, GrowEnd, <<>>)
    \/ \E i \in DOMAIN call : CoverageQueryOk(i)
    \/ \E i \in DOMAIN call : CoverageQueryError(i)

SpecGrow == InitGrow /\ [][NextGrow]_vars

\* The limiter alone: nothing of the coverage engine or the report route runs.
engineIdle ==
    /\ db = <<>>
    /\ call = [i \in {1} |-> idleCall]
    /\ pct = idlePct
    /\ req = idleReq
    /\ env = defaultEnv

\* The in-memory store: Upstash is not configured, every call is one step.
InitMem ==
    /\ engineIdle
    /\ now = 0
    /\ memoryStore = <<>>
    /\ upstash = <<>>
    /\ caller = [p \in 1..MemCalls |-> idleCaller]
    /\ limiter \in [configured : {FALSE}, limit : 1..MemLimit,
                    windowSeconds : 1..MemWindowSeconds]
    /\ traffic = noTraffic

NextMem ==
    \/ \E p \in Callers, key \in LimiterKeys : RateLimitCall(p, key, 1)
    \/ Tick(1, MemHorizon)

SpecMem == InitMem /\ [][NextMem]_vars

\* Upstash configured: calls overlap, and every request to Upstash may fail.
InitUpstash ==
    /\ engineIdle
    /\ now = 0
    /\ memoryStore = <<>>
    /\ upstash = <<>>
    /\ caller = [p \in 1..UpstashCalls |-> idleCaller]
    /\ limiter \in [configured : {TRUE}, limit : 1..UpstashLimit, windowSeconds : {1}]
    /\ traffic = noTraffic

NextUpstash ==
    \/ \E p \in Callers, key \in LimiterKeys : RateLimitCall(p, key, MaxInFlight)
    \/ \E p \in Callers, outcome \in UpstashOutcomes : UpstashPipeline(p, outcome)
    \/ \E p \in Callers, outcome \in UpstashOutcomes : UpstashExpire(p, outcome)
    \/ Tick(1, UpstashHorizon)

SpecUpstash == InitUpstash /\ [][NextUpstash]_vars

\* POST /api/data/download, with and without Upstash, one request at a time.
InitDownload ==
    /\ engineIdle
    /\ now = 0
    /\ memoryStore = <<>>
    /\ upstash = <<>>
    /\ caller = [p \in {1} |-> idleCaller]
    /\ limiter \in [configured : BOOLEAN, limit : {DOWNLOAD_RATE_LIMIT.limit},
                    windowSeconds : {DOWNLOAD_RATE_LIMIT.windowSeconds}]
    /\ traffic = noTraffic

NextDownload ==
    \/ \E p \in Callers, headers \in DownloadHeaders : DownloadReceive(p, headers)
    \/ \E p \in Callers, outcome \in UpstashOutcomes : UpstashPipeline(p, outcome)
    \/ \E p \in Callers, outcome \in UpstashOutcomes : UpstashExpire(p, outcome)
    \/ \E p \in Callers : DownloadDecide(p)
    \/ \E p \in Callers, body \in DownloadBodies : DownloadBody(p, body)
    \/ \E p \in Callers, ok \in BOOLEAN : DownloadQuery(p, ok)
    \/ \E p \in Callers : DownloadClose(p)
    \/ Tick(30, DownloadHorizon)

SpecDownload == InitDownload /\ [][NextDownload]_vars

Init ==
    /\ db \in TablesUpTo(RouteRows, MaxRouteRows)
    /\ call = [i \in {1} |-> idleCall]
    /\ pct = idlePct
    /\ req = idleReq
    /\ env \in Environments
    /\ limiterIdle

Next ==
    \/ \E s \in RouteDates, e \in RouteDates, st \in RouteStates : RouteReceive(s, e, st)
    \/ \E outcome \in SummaryOutcomes : RouteSummary(outcome)
    \/ \E ok \in BOOLEAN : RouteCoverage(ok)
    \/ \E ok \in BOOLEAN : RoutePreviousCoverage(ok)
    \/ \E outcome \in ReportOutcomes : RouteReport(outcome)

Spec == Init /\ [][Next]_vars

\* ------------------------------------------------------------------------
\* Properties

\* an invocation that issued its query and got rows back
returnedWithRows(c) == c.pc = "returned" /\ c.queries > 0 /\ ~c.error

\* the ISO weeks of the days from the Monday of startDate's week to endDate
expectedWeeks(startDate, endDate) ==
    {<<getISOWeekYear(d), getISOWeek(d)>> : d \in startOfISOWeek(startDate)..endDate}

strictlyChronological(keys) == \A k \in 1..(Len(keys) - 1) : keyBefore(keys[k], keys[k + 1])

\* C1: for every valid range and row set, the result has no more available
\* weeks than total weeks, coverageRatio is available / total rounded to 3
\* decimals, and coverageRatio never exceeds 1.
C1_CoverageBounded ==
    \A i \in DOMAIN call :
        returnedWithRows(call[i]) =>
            LET r == call[i].result
            IN  /\ Len(r.availableWeekLabels) <= r.totalWeeks
                /\ r.coverageRatio = toFixed3(Len(r.availableWeekLabels), r.totalWeeks)
                /\ r.coverageRatio <= 1000

\* C2: for every valid range and row set, available and missing week labels
\* are disjoint, together they are exactly the expected week sequence of the
\* range, and the missing labels are strictly chronological.
C2_WeeksPartition ==
    \A i \in DOMAIN call :
        returnedWithRows(call[i]) =>
            LET r == call[i].result
                available == Range(r.availableWeekLabels)
                missing == Range(r.missingWeekLabels)
            IN  /\ available \cap missing = {}
                /\ available \cup missing = expectedWeeks(call[i].startDate, call[i].endDate)
                /\ strictlyChronological(r.missingWeekLabels)

\* C3: calculatePercentageChange is 0 for (0, 0), 100 for a zero previous and
\* a non-zero current, and (current - previous) / |previous| * 100 otherwise;
\* null counts as 0 and the value is always a number.
C3_PercentageChange ==
    pct.pc = "done" =>
        LET c == IF pct.current = NullNum THEN Num(0) ELSE pct.current
            p == IF pct.previous = NullNum THEN Num(0) ELSE pct.previous
        IN  /\ pct.out[2] > 0
            /\ (p = Num(0) /\ c = Num(0)) => pct.out = Num(0)
            /\ (p = Num(0) /\ c # Num(0)) => pct.out = Num(100)
            /\ p # Num(0) =>
                  pct.out[1] * c[2] * Abs(p[1]) = 100 * (c[1] * p[2] - p[1] * c[2]) * pct.out[2]
            /\ (c = Num(5) /\ p = Num(0)) => pct.out = Num(100)
            /\ (c = Num(150) /\ p = Num(100)) => pct.out = Num(50)
            /\ (c = Num(50) /\ p = Num(100)) => pct.out = Num(0 - 50)

C3_Witness ==
    pct.pc = "done" /\ pct.current = Num(150) /\ pct.previous = Num(100) /\ pct.out = Num(50)

\* C4 as stated: topContributors has at most 3 entries, is strictly
\* descending by confirmed and holds no state with confirmed 0.
C4_StrictlyDescending ==
    \A i \in DOMAIN call :
        returnedWithRows(call[i]) =>
            LET top == call[i].result.topContributors
            IN  /\ Len(top) <= 3
                /\ \A k \in 1..(Len(top) - 1) : top[k].confirmed > top[k + 1].confirmed
                /\ \A k \in 1..Len(top) : top[k].confirmed # 0

\* C4 amended: topContributors has at most 3 entries, is in non-increasing
\* order of confirmed (states with equal totals may be adjacent) and holds
\* no state with confirmed 0.
C4_TopContributors ==
    \A i \in DOMAIN call :
        returnedWithRows(call[i]) =>
            LET top == call[i].result.topContributors
            IN  /\ Len(top) <= 3
                /\ \A k \in 1..(Len(top) - 1) : top[k].confirmed >= top[k + 1].confirmed
                /\ \A k \in 1..Len(top) : top[k].confirmed # 0

\* four states reported cases, the list is cut to three and two of them tie
C4_Witness ==
    /\ returnedWithRows(call[1])
    /\ Cardinality({k \in 1..Len(call[1].data) : call[1].data[k].confirmed > 0}) = 4
    /\ Len(call[1].result.topContributors) = 3
    /\ call[1].result.topContributors[1].confirmed > call[1].result.topContributors[2].confirmed
    /\ call[1].result.topContributors[2].confirmed = call[1].result.topContributors[3].confirmed

C6_InvalidRangeRejected ==
    (req.pc # "idle" /\ (req.startDate = NaNDate \/ req.endDate = NaNDate \/ req.endDate < req.startDate))
        => /\ req.pc = "done"
           /\ req.status = 400
           /\ req.response \in {"dates-required", "end-before-start"}
           /\ req.summaryFetches = 0 /\ req.coverageFetches = 0 /\ req.reportCalls = 0
           /\ ~req.summary.present /\ ~req.metrics.present

C6_Witness ==
    /\ req.pc = "done" /\ req.status = 400 /\ req.response = "end-before-start"
    /\ req.startDate # NaNDate /\ req.endDate # NaNDate /\ req.endDate < req.startDate

\* C7: when the fetch of the summary or of the coverage rows fails, the
\* request does not complete successfully, and the fetch is not retried.
C7_FetchFailurePropagates ==
    (req.pc = "done" /\ (req.summaryFailed \/ req.coverageFailed \/ req.previousCoverageFailed))
        => /\ req.status # 200
           /\ req.summaryFetches <= 1
           /\ req.coverageFetches <= 2

\* C8: a valid range whose query returns no row of the window gives a
\* result with no available week, an empty series, every expected week
\* missing, coverageRatio 0 and empty topContributors and fastestGrowers.
C8_EmptyResultSet ==
    \A i \in DOMAIN call :
        (returnedWithRows(call[i])
            /\ acceptedRows(call[i].data, call[i].startDate, call[i].endDate) = <<>>)
        => LET r == call[i].result
           IN  /\ r.availableWeekLabels = <<>>
               /\ r.weeklySeries = <<>>
               /\ Range(r.missingWeekLabels) = expectedWeeks(call[i].startDate, call[i].endDate)
               /\ strictlyChronological(r.missingWeekLabels)
               /\ r.coverageRatio = 0
               /\ r.coverageRatio # Null
               /\ r.topContributors = <<>>
               /\ r.fastestGrowers = <<>>

\* the query returned rows, none of them in the two-week window
C8_Witness ==
    /\ returnedWithRows(call[1])
    /\ Len(call[1].data) > 0
    /\ acceptedRows(call[1].data, call[1].startDate, call[1].endDate) = <<>>
    /\ Len(call[1].result.missingWeekLabels) = 2

averagingDenominator(weeksWithData, days) ==
    IF weeksWithData > 0 THEN weeksWithData ELSE Max2(1, (days + 6) \div 7)

\* C10: the denominator of the per-reported-week averages is, for the
\* current and for the previous window alike, the number of weeks with data
\* if that is > 0 and otherwise ceil(days / 7) of the window, at least 1.
C10_SameDenominatorRule ==
    req.metrics.present =>
        LET days == req.endDate - req.startDate + 1
            previousDays == req.previousEndDate - req.previousStartDate + 1
        IN  /\ req.metrics.weeksReported =
                  averagingDenominator(Len(req.coverage.availableWeekLabels), days)
            /\ req.metrics.previousWeeksReported =
                  averagingDenominator(Len(req.previousCoverage.availableWeekLabels), previousDays)

\* the days of a window
windowDays(startDate, endDate) == startDate..endDate

\* C11: for every valid range the previous window ends on the day before
\* startDate and has as many days as the current window, so the two windows
\* are adjacent, disjoint and of the same length.
C11_PreviousWindowAdjacent ==
    req.pc \in {"awaitPrevCoverage", "awaitReport"} \/ req.response \in {"report", "not-configured", "generation-error", "unexpected-error"}
        => /\ req.previousEndDate = req.startDate - 1
           /\ Cardinality(windowDays(req.previousStartDate, req.previousEndDate))
                  = Cardinality(windowDays(req.startDate, req.endDate))
           /\ windowDays(req.previousStartDate, req.previousEndDate)
                  \cap windowDays(req.startDate, req.endDate) = {}

\* a five-day window, 2025-01-01 .. 2025-01-05, whose previous window was computed
C11_Witness ==
    /\ req.pc = "awaitPrevCoverage"
    /\ req.startDate = DateOf(2025, 1, 1) /\ req.endDate = DateOf(2025, 1, 5)
    /\ req.previousStartDate = DateOf(2024, 12, 27) /\ req.previousEndDate = DateOf(2024, 12, 31)

\* the rows of the table that belong to real states, match the state filters
\* of the invocation and fall in a week overlapping its window
realStateRows(c) ==
    SelectSeq(db, LAMBDA row :
        /\ row.states # "Total"
        /\ (\E k \in 1..Len(c.states) : c.states[k] \notin {"", "All States"})
               => (\E k \in 1..Len(c.states) : c.states[k] = row.states)
        /\ row.full_year \in yearsToFetch(c.startDate, c.endDate)
        /\ rowAccepted(row, c.startDate, c.endDate))

\* C12: no row of the "Total" pseudo-state contributes to a weekly total, a
\* state total, availableWeekLabels, topContributors or fastestGrowers,
\* whether or not the table still holds such rows.
C12_TotalExcluded ==
    \A i \in DOMAIN call :
        returnedWithRows(call[i]) =>
            LET res == call[i].result
                real == realStateRows(call[i])
            IN  /\ \A k \in 1..Len(call[i].rows) : call[i].rows[k].states # "Total"
                /\ Range(res.availableWeekLabels) = {rowKey(real[k]) : k \in 1..Len(real)}
                /\ \A k \in 1..Len(res.weeklySeries) :
                       LET inWeek == SelectSeq(real, LAMBDA r : rowKey(r) = res.weeklySeries[k].week)
                       IN  /\ res.weeklySeries[k].confirmed = SumSeq(MapSeq(inWeek, LAMBDA r : r.confirmed))
                           /\ res.weeklySeries[k].suspected = SumSeq(MapSeq(inWeek, LAMBDA r : r.suspected))
                           /\ res.weeklySeries[k].deaths = SumSeq(MapSeq(inWeek, LAMBDA r : r.deaths))
                /\ \A k \in 1..Len(res.topContributors) :
                       /\ res.topContributors[k].state # "Total"
                       /\ res.topContributors[k].confirmed =
                              SumSeq(MapSeq(SelectSeq(real, LAMBDA r : r.states = res.topContributors[k].state),
                                            LAMBDA r : r.confirmed))
                /\ \A k \in 1..Len(res.fastestGrowers) : res.fastestGrowers[k].state # "Total"

\* the table holds a "Total" row of 70 confirmed in week 2 next to Edo's rows
\* of both weeks, no state filter: the weekly totals are Edo's 10 and 20
C12_Witness ==
    /\ returnedWithRows(call[1])
    /\ call[1].states = <<>>
    /\ \E k \in 1..Len(db) : db[k].states = "Total" /\ db[k].week = 2 /\ db[k].confirmed = 70
    /\ Len(call[1].result.weeklySeries) = 2
    /\ call[1].result.weeklySeries[1].confirmed = 10
    /\ call[1].result.weeklySeries[2].confirmed = 20
    /\ Len(call[1].result.fastestGrowers) = 1

\* C13: alertFlags.incompleteReporting is set exactly when coverageRatio is
\* non-null and below 0.75; a range of 4 consecutive ISO weeks with data only
\* in its weeks 1 and 3 gives totalWeeks = 4, two available weeks, the other
\* two missing in order, coverageRatio = 0.5 and incompleteReporting.
C13_IncompleteReporting ==
    \A i \in DOMAIN call :
        call[i].pc = "returned" =>
            LET res == call[i].result
            IN  /\ "incompleteReporting" \in res.alertFlags
                       <=> (res.coverageRatio # Null /\ 4 * res.coverageRatio < 3 * 1000)
                /\ (/\ returnedWithRows(call[i])
                    /\ call[i].startDate = DateOf(2025, 1, 6)
                    /\ call[i].endDate = DateOf(2025, 2, 2)
                    /\ {db[k].week : k \in 1..Len(db)} \cap 2..5 = {2, 4})
                   => /\ res.totalWeeks = 4
                      /\ res.availableWeekLabels = << <<2025, 2>>, <<2025, 4>> >>
                      /\ res.missingWeekLabels = << <<2025, 3>>, <<2025, 5>> >>
                      /\ res.coverageRatio = 500
                      /\ "incompleteReporting" \in res.alertFlags

\* 2025-01-06 .. 2025-02-02 with rows in 2025-W02 and 2025-W04 only
C13_Witness ==
    /\ returnedWithRows(call[1])
    /\ call[1].startDate = DateOf(2025, 1, 6) /\ call[1].endDate = DateOf(2025, 2, 2)
    /\ {db[k].week : k \in 1..Len(db)} = {2, 4}
    /\ call[1].result.coverageRatio = 500
    /\ "incompleteReporting" \in call[1].result.alertFlags

\* the weeks with data of an invocation, in chronological order, and the
\* confirmed cases of all matching states summed over one of them
globalWeeks(c) == availableWeekLabelsOf(realStateRows(c))

globalConfirmed(c, key) ==
    SumSeq(MapSeq(SelectSeq(realStateRows(c), LAMBDA r : rowKey(r) = key), LAMBDA r : r.confirmed))

\* C14: alertFlags.sustainedGrowth is set exactly when the global weekly
\* confirmed series has two consecutive positive week-over-week deltas, that
\* is, when the totals strictly increase across three consecutive entries.
C14_SustainedGrowth ==
    \A i \in DOMAIN call :
        returnedWithRows(call[i]) =>
            LET keys == globalWeeks(call[i])
                delta(k) == globalConfirmed(call[i], keys[k + 1]) - globalConfirmed(call[i], keys[k])
            IN  "sustainedGrowth" \in call[i].result.alertFlags
                    <=> \E k \in 1..(Len(keys) - 2) : delta(k) > 0 /\ delta(k + 1) > 0

\* the totals 10, 40, 75 in 2025-W02, W03, W04, followed by a fall in W05
C14_Witness ==
    /\ returnedWithRows(call[1])
    /\ "sustainedGrowth" \in call[1].result.alertFlags
    /\ Len(call[1].result.weeklySeries) = 4
    /\ call[1].result.weeklySeries[1].confirmed = 10
    /\ call[1].result.weeklySeries[2].confirmed = 40
    /\ call[1].result.weeklySeries[3].confirmed = 75
    /\ call[1].result.weeklySeries[4].confirmed = 10

\* C18: alertFlags.sharpSpike is set exactly when some week-over-week
\* increase of the global weekly confirmed series (all matching states
\* summed) is >= 25; it is absent when the series has fewer than two weeks.
C18_SharpSpike ==
    \A i \in DOMAIN call :
        returnedWithRows(call[i]) =>
            LET keys == globalWeeks(call[i])
                delta(k) == globalConfirmed(call[i], keys[k + 1]) - globalConfirmed(call[i], keys[k])
            IN  /\ "sharpSpike" \in call[i].result.alertFlags
                       <=> \E k \in 1..(Len(keys) - 1) : delta(k) >= 25
                /\ Len(keys) < 2 => "sharpSpike" \notin call[i].result.alertFlags

\* Edo's 10 in 2025-W02 followed by Lagos's 35 in W03: an increase of
\* exactly 25 of the summed series, which neither state has on its own
C18_Witness ==
    /\ returnedWithRows(call[1])
    /\ "sharpSpike" \in call[1].result.alertFlags
    /\ Len(db) = 2
    /\ db[1].states = "Edo" /\ db[1].week = 2 /\ db[1].confirmed = 10
    /\ db[2].states = "Lagos" /\ db[2].week = 3 /\ db[2].confirmed = 35

\* state st has a row of 10 confirmed in a week of the window and a row
\* of 40 in the week after it
risesFrom10To40(c, st) ==
    \E j, k \in 1..Len(db) :
        /\ db[j].states = st /\ db[k].states = st
        /\ db[j].confirmed = 10 /\ db[k].confirmed = 40
        /\ db[j].full_year = db[k].full_year /\ db[k].week = db[j].week + 1
        /\ rowAccepted(db[j], c.startDate, c.endDate)
        /\ rowAccepted(db[k], c.startDate, c.endDate)

\* the largest difference between two adjacent weeks with data of state st in the window
largestRise(c, st) ==
    LET own == SelectSeq(realStateRows(c), LAMBDA r : r.states = st)
        keys == availableWeekLabelsOf(own)
        confirmedAt(k) == SumSeq(MapSeq(SelectSeq(own, LAMBDA r : rowKey(r) = keys[k]), LAMBDA r : r.confirmed))
        rises == {confirmedAt(k + 1) - confirmedAt(k) : k \in 1..(Len(keys) - 1)}
    IN  CHOOSE m \in rises : \A x \in rises : x <= m

\* C15 as stated: whenever one state's confirmed count rises from 10 to 40
\* across two consecutive weeks of the range, sharpSpike is set and
\* fastestGrowers has that state with weekOverWeekChange = 30, whatever the
\* other rows of the range are.
C15_SpikeWhateverOtherRows ==
    \A i \in DOMAIN call :
        returnedWithRows(call[i]) =>
            \A st \in Range(ScanStates) :
                risesFrom10To40(call[i], st) =>
                    /\ "sharpSpike" \in call[i].result.alertFlags
                    /\ \E k \in 1..Len(call[i].result.fastestGrowers) :
                           /\ call[i].result.fastestGrowers[k].state = st
                           /\ call[i].result.fastestGrowers[k].weekOverWeekChange = 30

\* C15 amended: whenever one state's confirmed count rises from 10 to 40
\* across two consecutive weeks of the range, no other state has rows in
\* the range and the state has no larger rise, sharpSpike is set and
\* fastestGrowers has that state with weekOverWeekChange = 30.
C15_SpikeOfTheOnlyState ==
    \A i \in DOMAIN call :
        returnedWithRows(call[i]) =>
            \A st \in Range(ScanStates) :
                (/\ risesFrom10To40(call[i], st)
                 /\ \A k \in 1..Len(db) : rowAccepted(db[k], call[i].startDate, call[i].endDate)
                                              => db[k].states = st
                 /\ largestRise(call[i], st) = 30)
                    => /\ "sharpSpike" \in call[i].result.alertFlags
                       /\ \E k \in 1..Len(call[i].result.fastestGrowers) :
                              /\ call[i].result.fastestGrowers[k].state = st
                              /\ call[i].result.fastestGrowers[k].weekOverWeekChange = 30

\* Edo alone in the table: 10 in 2025-W02, 40 in W03 and 10 again in W04
C15_Witness ==
    /\ returnedWithRows(call[1])
    /\ Len(db) = 3
    /\ \A k \in 1..3 : db[k].states = "Edo" /\ db[k].week = k + 1
    /\ db[1].confirmed = 10 /\ db[2].confirmed = 40 /\ db[3].confirmed = 10
    /\ "sharpSpike" \in call[1].result.alertFlags
    /\ Len(call[1].result.fastestGrowers) = 1

\* the confirmed cases of the states of the window that have any (the
\* qualifying states), summed
qualifyingConfirmed(c) ==
    LET real == realStateRows(c)
        ofState(st) == SumSeq(MapSeq(SelectSeq(real, LAMBDA r : r.states = st), LAMBDA r : r.confirmed))
        states == FirstSeen(MapSeq(real, LAMBDA r : r.states))
    IN  SumSeq(MapSeq(SelectSeq(states, LAMBDA st : ofState(st) > 0), ofState))

\* share (in thousandths) is confirmed / total rounded to 3 decimals
roundedShare(share, confirmed, total) ==
    /\ 2 * total * share - 2000 * confirmed <= total
    /\ 2000 * confirmed - 2 * total * share <= total

\* C20 as stated: each entry's shareOfConfirmed is its confirmed total over
\* the sum of the qualifying states, rounded to 3 decimals, so every share
\* lies in (0, 1] and the listed shares sum to at most 1; the share is
\* omitted when that sum is 0.
C20_ShareInUnitInterval ==
    \A i \in DOMAIN call :
        returnedWithRows(call[i]) =>
            LET top == call[i].result.topContributors
                total == qualifyingConfirmed(call[i])
            IN  /\ \A k \in 1..Len(top) :
                       IF total = 0 THEN top[k].shareOfConfirmed = Null
                       ELSE /\ roundedShare(top[k].shareOfConfirmed, top[k].confirmed, total)
                            /\ top[k].shareOfConfirmed > 0
                            /\ top[k].shareOfConfirmed <= 1000
                /\ total > 0 => SumSeq(MapSeq(top, LAMBDA item : item.shareOfConfirmed)) <= 1000

\* C20 amended: each entry's shareOfConfirmed is its confirmed total over
\* the sum of the qualifying states, rounded to 3 decimals, so every share
\* lies in [0, 1] and the listed shares sum to at most 1.001; the share is
\* omitted when that sum is 0.
C20_ShareRounded ==
    \A i \in DOMAIN call :
        returnedWithRows(call[i]) =>
            LET top == call[i].result.topContributors
                total == qualifyingConfirmed(call[i])
            IN  /\ \A k \in 1..Len(top) :
                       IF total = 0 THEN top[k].shareOfConfirmed = Null
                       ELSE /\ roundedShare(top[k].shareOfConfirmed, top[k].confirmed, total)
                            /\ top[k].shareOfConfirmed >= 0
                            /\ top[k].shareOfConfirmed <= 1000
                /\ total > 0 => SumSeq(MapSeq(top, LAMBDA item : item.shareOfConfirmed)) <= 1001

\* confirmed totals 4, 1, 1: the shares 0.667, 0.167, 0.167 sum to 1.001
C20_Witness ==
    /\ returnedWithRows(call[1])
    /\ Len(call[1].result.topContributors) = 3
    /\ call[1].result.topContributors[1].shareOfConfirmed = 667
    /\ call[1].result.topContributors[2].shareOfConfirmed = 167
    /\ call[1].result.topContributors[3].shareOfConfirmed = 167

\* the weeks with data of state st in the window, in chronological order,
\* and its confirmed cases in one of them
stateWeeks(c, st) == availableWeekLabelsOf(SelectSeq(realStateRows(c), LAMBDA r : r.states = st))

stateConfirmed(c, st, key) ==
    SumSeq(MapSeq(SelectSeq(realStateRows(c), LAMBDA r : r.states = st /\ rowKey(r) = key),
                  LAMBDA r : r.confirmed))

\* state st has two weeks of data or more and its largest rise is positive
growing(c, st) == Len(stateWeeks(c, st)) >= 2 /\ largestRise(c, st) > 0

\* C19: fastestGrowers holds, for at most 3 states, the state's largest
\* delta between consecutive entries of its own chronologically sorted weekly
\* confirmed series and a week at which that delta occurred; states whose
\* largest delta is <= 0 or that have fewer than two weeks of data are left
\* out, and the list is sorted by delta descending (the states left out for
\* lack of room have no larger delta than the listed ones).
C19_FastestGrowers ==
    \A i \in DOMAIN call :
        returnedWithRows(call[i]) =>
            LET g == call[i].result.fastestGrowers
                listed == {g[k].state : k \in 1..Len(g)}
            IN  /\ Len(g) <= 3
                /\ Cardinality(listed) = Len(g)
                /\ \A k \in 1..Len(g) :
                       LET keys == stateWeeks(call[i], g[k].state)
                       IN  /\ growing(call[i], g[k].state)
                           /\ g[k].weekOverWeekChange = largestRise(call[i], g[k].state)
                           /\ \E n \in 2..Len(keys) :
                                  /\ keys[n] = g[k].week
                                  /\ stateConfirmed(call[i], g[k].state, keys[n])
                                         - stateConfirmed(call[i], g[k].state, keys[n - 1])
                                     = g[k].weekOverWeekChange
                /\ \A k \in 1..(Len(g) - 1) : g[k].weekOverWeekChange >= g[k + 1].weekOverWeekChange
                /\ \A st \in GrowStates \ listed :
                       growing(call[i], st) =>
                           Len(g) = 3 /\ largestRise(call[i], st) <= g[3].weekOverWeekChange

\* all four states rise (Bauchi by 40, Edo by 30 and then not at all, Lagos
\* by 20, Ondo by 10): the list is Bauchi, Edo, Lagos and Ondo is left out
C19_Witness ==
    /\ returnedWithRows(call[1])
    /\ Len(call[1].result.fastestGrowers) = 3
    /\ call[1].result.fastestGrowers[1].state = "Bauchi"
    /\ call[1].result.fastestGrowers[2].state = "Edo"
    /\ call[1].result.fastestGrowers[2].week = <<2025, 3>>
    /\ call[1].result.fastestGrowers[3].state = "Lagos"
    /\ Len(db) = 9
    /\ \E k \in 1..Len(db) : db[k].states = "Ondo" /\ db[k].week = 2 /\ db[k].confirmed = 10

\* the request has been answered and its range passed the checks of lines 17-34
answeredValidRange ==
    /\ req.pc = "done"
    /\ req.response \notin {"dates-required", "end-before-start", "range-too-long"}

\* no key is set for the provider REPORT_LLM_PROVIDER selects (openai unless it says gemini)
noKeyForProvider ==
    IF env.REPORT_LLM_PROVIDER = "gemini" THEN ~env.GEMINI_API_KEY ELSE ~env.OPENAI_API_KEY

\* C16: the coverageRatio of the metrics payload is the fraction of the
\* expected weeks that have a data row, rounded to 3 decimals: it is 1 only
\* if every expected week has data, and it agrees with availableWeekLabels
\* and missingWeekLabels of the coverage report in every outcome of the fetch.
C16_PayloadCoverageRatio ==
    req.metrics.present =>
        LET expected == expectedWeeks(req.startDate, req.endDate)
            available == Range(req.coverage.availableWeekLabels)
            missing == Range(req.coverage.missingWeekLabels)
        IN  /\ roundedShare(req.metrics.coverageRatio,
                            Cardinality(expected \cap available), Cardinality(expected))
            /\ req.metrics.coverageRatio = 1000 => expected \subseteq available /\ missing = {}
            /\ req.metrics.coverageRatio < 1000 => missing # {}

\* C17 as stated: with no API key for the selected provider, every request
\* with a valid range ends in a configuration error, never in a report and
\* never in a success response.
C17_AlwaysConfigurationError ==
    (answeredValidRange /\ noKeyForProvider)
        => req.status = 500 /\ req.response = "not-configured"

\* C17 amended: with no API key for the selected provider, every request
\* with a valid range for which a summary is available ends in a
\* configuration error (500), and one whose summary is unavailable in the 200
\* "No data available" answer without a report; none ends in a report.
C17_ConfigurationErrorOrNoData ==
    (answeredValidRange /\ noKeyForProvider)
        => /\ req.response # "report"
           /\ req.summary.present => req.status = 500 /\ req.response = "not-configured"
           /\ ~req.summary.present => req.status = 200 /\ req.response = "no-data"

\* openai selected by default, OPENAI_API_KEY unset although GEMINI_API_KEY
\* is set: the request with a summary and both coverages ends in the 500
C17_Witness ==
    /\ req.pc = "done" /\ req.response = "not-configured" /\ req.status = 500
    /\ env.REPORT_LLM_PROVIDER = "" /\ ~env.OPENAI_API_KEY /\ env.GEMINI_API_KEY
    /\ req.summary.present /\ req.reportCalls = 1

\* the place of a category in notableSignals
signalRank(kind) ==
    IF kind = "Missing weekly reports" THEN 1
    ELSE IF kind = "Largest confirmed increase" THEN 2
    ELSE IF kind = "Steepest confirmed decline" THEN 3 ELSE 0

\* C21: notableSignals has at most one entry per category and at most three
\* in all, in this order: the missing weeks iff missingWeekLabels is
\* non-empty; the single largest positive week-over-week confirmed increase
\* with its magnitude and both week keys iff some increase exists; the
\* single largest decrease iff some decrease exists.
C21_NotableSignals ==
    \A i \in DOMAIN call :
        returnedWithRows(call[i]) =>
            LET sig == call[i].result.notableSignals
                keys == globalWeeks(call[i])
                delta(k) == globalConfirmed(call[i], keys[k + 1]) - globalConfirmed(call[i], keys[k])
                deltas == {delta(k) : k \in 1..(Len(keys) - 1)}
                missing == expectedWeeks(call[i].startDate, call[i].endDate) \ Range(keys)
                has(kind) == \E n \in 1..Len(sig) : sig[n].kind = kind
                between(s) == \E k \in 1..(Len(keys) - 1) :
                                  /\ s.previousWeek = keys[k] /\ s.currentWeek = keys[k + 1]
                                  /\ s.delta = delta(k)
            IN  /\ Len(sig) <= 3
                /\ \A n \in 1..Len(sig) : signalRank(sig[n].kind) > 0
                /\ \A n \in 1..(Len(sig) - 1) : signalRank(sig[n].kind) < signalRank(sig[n + 1].kind)
                /\ has("Missing weekly reports") <=> missing # {}
                /\ has("Largest confirmed increase") <=> \E x \in deltas : x > 0
                /\ has("Steepest confirmed decline") <=> \E x \in deltas : x < 0
                /\ \A n \in 1..Len(sig) :
                       CASE sig[n].kind = "Missing weekly reports" ->
                                /\ Range(sig[n].weeks) = missing
                                /\ strictlyChronological(sig[n].weeks)
                                /\ sig[n].weeks = call[i].result.missingWeekLabels
                         [] sig[n].kind = "Largest confirmed increase" ->
                                between(sig[n]) /\ \A x \in deltas : x <= sig[n].delta
                         [] OTHER ->
                                between(sig[n]) /\ \A x \in deltas : x >= sig[n].delta

\* 2025-W02 .. W05 with totals 10, 40 and 10 in W02, W03 and W05: W04 is
\* missing, the largest increase is +30 and the steepest decline -30
C21_Witness ==
    /\ returnedWithRows(call[1])
    /\ Len(call[1].result.notableSignals) = 3
    /\ call[1].result.notableSignals[1].weeks = << <<2025, 4>> >>
    /\ call[1].result.notableSignals[2].delta = 30
    /\ call[1].result.notableSignals[2].previousWeek = <<2025, 2>>
    /\ call[1].result.notableSignals[2].currentWeek = <<2025, 3>>
    /\ call[1].result.notableSignals[3].delta = 0 - 30
    /\ call[1].result.notableSignals[3].currentWeek = <<2025, 5>>

\* year and week of the row parse, and one of the seven days from the
\* Monday derived from them lies in [startDate, endDate]
weekOverlapsWindow(row, startDate, endDate) ==
    /\ row.full_year # Null
    /\ row.week # Null
    /\ \E d \in 0..6 :
           LET day == getIsoWeekStart(row.full_year, row.week) + d
           IN  startDate <= day /\ day <= endDate

\* C22: a fetched row contributes to the weekly totals, the state totals
\* and availableWeekLabels iff its year and week parse and the ISO week
\* derived from them (its Monday through Monday + 6 days) overlaps
\* [startDate, endDate]; fetched rows outside the window change nothing in
\* the output.
C22_RowContributesIffOverlap ==
    \A i \in DOMAIN call :
        returnedWithRows(call[i]) =>
            LET c == call[i]
                inWindow == SelectSeq(c.data, LAMBDA r : weekOverlapsWindow(r, c.startDate, c.endDate))
                sumOver(rows, week) ==
                    SumSeq(MapSeq(SelectSeq(rows, LAMBDA r : <<r.full_year, r.week>> = week),
                                  LAMBDA r : r.confirmed))
            IN  /\ c.rows = inWindow
                /\ Range(c.result.availableWeekLabels) = {<<inWindow[k].full_year, inWindow[k].week>> : k \in 1..Len(inWindow)}
                /\ \A k \in 1..Len(c.result.weeklySeries) :
                       c.result.weeklySeries[k].confirmed = sumOver(inWindow, c.result.weeklySeries[k].week)
                /\ \A k \in 1..Len(c.result.topContributors) :
                       c.result.topContributors[k].confirmed =
                           SumSeq(MapSeq(SelectSeq(inWindow, LAMBDA r : r.states = c.result.topContributors[k].state),
                                         LAMBDA r : r.confirmed))
                /\ c.result = resultFromRows(inWindow, c.startDate, c.endDate)

\* the window 2024-12-29 .. 2025-01-01: the fetch of the years 2024 and 2025
\* returns a row of 2024-W01, dropped, one without a week, dropped, and one
\* of 2024-W52, whose week only overlaps the window by its Sunday, kept
C22_Witness ==
    /\ returnedWithRows(call[1])
    /\ call[1].startDate = DateOf(2024, 12, 29) /\ call[1].endDate = DateOf(2025, 1, 1)
    /\ Len(call[1].data) = 3
    /\ \E k \in 1..3 : call[1].data[k].full_year = 2024 /\ call[1].data[k].week = 1
    /\ \E k \in 1..3 : call[1].data[k].week = Null
    /\ \E k \in 1..3 : call[1].data[k].full_year = 2024 /\ call[1].data[k].week = 52
    /\ call[1].result.availableWeekLabels = << <<2024, 52>> >>

\* key <<year, week>> has a week number in 1..53 and names the ISO week
\* that the Monday derived from it belongs to
canonicalWeekKey(key) ==
    /\ 1 <= key[2] /\ key[2] <= 53
    /\ getISOWeekYear(getIsoWeekStart(key[1], key[2])) = key[1]
    /\ getISOWeek(getIsoWeekStart(key[1], key[2])) = key[2]

\* C23: every week key in availableWeekLabels, weeklySeries,
\* missingWeekLabels and fastestGrowers has the form YYYY-Www with
\* 1 <= week <= 53 and denotes an ISO week that exists in that ISO year: the
\* key and the dates used for the window check name the same week.
C23_CanonicalWeekKeys ==
    \A i \in DOMAIN call :
        returnedWithRows(call[i]) =>
            LET res == call[i].result
            IN  /\ \A k \in 1..Len(res.availableWeekLabels) : canonicalWeekKey(res.availableWeekLabels[k])
                /\ \A k \in 1..Len(res.weeklySeries) : canonicalWeekKey(res.weeklySeries[k].week)
                /\ \A k \in 1..Len(res.missingWeekLabels) : canonicalWeekKey(res.missingWeekLabels[k])
                /\ \A k \in 1..Len(res.fastestGrowers) : canonicalWeekKey(res.fastestGrowers[k].week)

\* week key b is the calendar week right after week key a
nextCalendarWeek(a, b) == getIsoWeekStart(b[1], b[2]) = addDays(getIsoWeekStart(a[1], a[2]), 7)

\* C24: every week-over-week delta behind sustainedGrowth, sharpSpike,
\* notableSignals and fastestGrowers is the difference between a week and
\* the calendar week right before it; two weeks separated by a missing week
\* are never compared as if adjacent.
C24_DeltasBetweenCalendarNeighbours ==
    \A i \in DOMAIN call :
        returnedWithRows(call[i]) =>
            LET res == call[i].result
                keys == globalWeeks(call[i])
                total(k) == globalConfirmed(call[i], keys[k])
                neighbours(k) == nextCalendarWeek(keys[k], keys[k + 1])
            IN  /\ \A n \in 1..Len(res.notableSignals) :
                       res.notableSignals[n].kind # "Missing weekly reports"
                           => nextCalendarWeek(res.notableSignals[n].previousWeek,
                                               res.notableSignals[n].currentWeek)
                /\ "sharpSpike" \in res.alertFlags
                       => \E k \in 1..(Len(keys) - 1) : neighbours(k) /\ total(k + 1) - total(k) >= 25
                /\ "sustainedGrowth" \in res.alertFlags
                       => \E k \in 1..(Len(keys) - 2) :
                              /\ neighbours(k) /\ neighbours(k + 1)
                              /\ total(k) < total(k + 1) /\ total(k + 1) < total(k + 2)
                /\ \A n \in 1..Len(res.fastestGrowers) :
                       LET own == stateWeeks(call[i], res.fastestGrowers[n].state)
                       IN  \E k \in 1..(Len(own) - 1) :
                               /\ own[k + 1] = res.fastestGrowers[n].week
                               /\ nextCalendarWeek(own[k], own[k + 1])

\* both coverages of the request have arrived
bothCoveragesFetched == req.pc = "awaitReport" \/ (req.pc = "done" /\ req.metrics.present)

\* no table row lies in both windows and no week key is available in both
windowsShareNothing ==
    /\ Range(req.coverage.availableWeekLabels) \cap Range(req.previousCoverage.availableWeekLabels) = {}
    /\ \A k \in 1..Len(db) :
           ~(/\ weekOverlapsWindow(db[k], req.startDate, req.endDate)
             /\ weekOverlapsWindow(db[k], req.previousStartDate, req.previousEndDate)
             /\ ~req.coverageFailed /\ ~req.previousCoverageFailed
             /\ (req.states = <<>> \/ db[k].states \in Range(req.states)))

\* C25: no fetched row is counted in both the current-window and
\* the previous-window coverage of one request; the week keys reported as
\* available for the two windows are disjoint.
C25_WindowsShareNoRow == bothCoveragesFetched => windowsShareNothing

\* the sum of one of suspected, confirmed, deaths over a sequence of records
sumOfField(s, field) == SumSeq(MapSeq(s, LAMBDA r : r[field]))

\* C26: in every result the sums of confirmed, suspected and deaths over
\* weeklySeries equal the sums over the per-state totals and the sums over
\* the rows that passed the window check; weeklySeries has exactly one entry
\* per entry of availableWeekLabels, in the same chronological order.
C26_SumsAgree ==
    \A i \in DOMAIN call :
        returnedWithRows(call[i]) =>
            LET c == call[i]
                passed == SelectSeq(c.data, LAMBDA r : weekOverlapsWindow(r, c.startDate, c.endDate))
                stateTotals == stateTotalsArrayOf(passed)
            IN  /\ \A field \in {"suspected", "confirmed", "deaths"} :
                       /\ sumOfField(c.result.weeklySeries, field) = sumOfField(passed, field)
                       /\ sumOfField(stateTotals, field) = sumOfField(passed, field)
                /\ Len(c.result.weeklySeries) = Len(c.result.availableWeekLabels)
                /\ \A k \in 1..Len(c.result.weeklySeries) :
                       c.result.weeklySeries[k].week = c.result.availableWeekLabels[k]
                /\ strictlyChronological(c.result.availableWeekLabels)
                /\ \A k \in 1..Len(c.result.topContributors) :
                       \E n \in 1..Len(stateTotals) :
                           /\ stateTotals[n].state = c.result.topContributors[k].state
                           /\ stateTotals[n].confirmed = c.result.topContributors[k].confirmed

\* three rows pass the window check, two of Edo in different weeks and one
\* of Lagos: 30 confirmed over two weeks and over two states
C26_Witness ==
    /\ returnedWithRows(call[1])
    /\ Len(call[1].rows) = 3
    /\ Len(call[1].result.weeklySeries) = 2
    /\ Len(call[1].result.topContributors) = 2
    /\ sumOfField(call[1].result.weeklySeries, "confirmed") = 30
    /\ sumOfField(call[1].result.topContributors, "confirmed") = 30

\* sequence s with the elements at positions j and k exchanged
swapped(s, j, k) == [n \in 1..Len(s) |-> IF n = j THEN s[k] ELSE IF n = k THEN s[j] ELSE s[n]]

\* C27: the result of fetchWeeklyCoverage does not depend on the order in
\* which the fetch returns the rows: the same rows with any two of them
\* exchanged (hence in any permutation) give the same availableWeekLabels,
\* weeklySeries, missingWeekLabels, topContributors, fastestGrowers,
\* alertFlags and notableSignals.
C27_RowOrderIrrelevant ==
    \A i \in DOMAIN call :
        returnedWithRows(call[i]) =>
            \A j, k \in 1..Len(call[i].data) :
                coverageFromData(swapped(call[i].data, j, k), call[i].startDate, call[i].endDate)
                    = call[i].result


\* ------------------------------------------------------------------------
\* C28 - C30: the rate limiter and the data download route

\* The calls that have been answered, by their number in call order.
answered == {p \in Callers : caller[p].pc \in {"returned", "responded", "body", "query"}}

windowMsOf(windowSeconds) == windowSeconds * 1000

\* The start of the window a call falls into, by the clock alone: the first
\* call starts a window, and so does every call made when the window of the
\* call before it is over.
RECURSIVE windowStartOf(_)
windowStartOf(p) ==
    IF p = 1 THEN caller[1].at
    ELSE IF caller[p].at >= windowStartOf(p - 1) + windowMsOf(limiter.windowSeconds)
         THEN caller[p].at
         ELSE windowStartOf(p - 1)

allowedInWindow(start) ==
    {p \in answered : windowStartOf(p) = start /\ caller[p].result.allowed}

\* C28: with the in-memory store and one key, every window admits at most
\* `limit` calls before its resetAt (the start of the window plus the
\* window length), a denied call reports the resetAt of the call before it
\* and leaves the stored resetAt alone, and a call made at or after the
\* resetAt reported to the call before it is allowed, with
\* remaining = limit - 1 and a resetAt one window length after the call.
C28_MemoryWindows ==
    \A p \in answered :
        LET r == caller[p].result
            windowMs == windowMsOf(limiter.windowSeconds)
        IN  /\ Cardinality(allowedInWindow(windowStartOf(p))) <= limiter.limit
            /\ r.resetAt = windowStartOf(p) + windowMs
            /\ ~r.allowed =>
                   /\ p > 1
                   /\ r.resetAt = caller[p - 1].result.resetAt
            /\ (p = 1 \/ caller[p].at >= caller[p - 1].result.resetAt) =>
                   /\ r.allowed
                   /\ r.remaining = limiter.limit - 1
                   /\ r.resetAt = caller[p].at + windowMs
            /\ (p + 1 \notin answered) => memoryStore[caller[p].key].resetAt = r.resetAt

\* C28 witness: a call is denied inside a window, and a later call, made at
\* the very millisecond of that window's resetAt, is allowed.
C28_Witness ==
    \E p \in answered, q \in answered :
        /\ p < q
        /\ ~caller[p].result.allowed
        /\ caller[q].at = caller[p].result.resetAt
        /\ caller[q].result.allowed
        /\ caller[q].result.remaining = limiter.limit - 1


\* The calls answered at one reading of the clock that were allowed.
allowedAt(t) == {p \in answered : caller[p].at = t /\ caller[p].result.allowed}

\* No call is between its first request to Upstash and its answer.
quiescent == \A p \in Callers : caller[p].pc \notin {"pipeline", "expire"}

\* C29: with Upstash configured, whatever the interleaving of the calls and
\* whichever requests to Upstash fail, the calls for one key that are allowed
\* at one reading of the clock (they share a window, however windows are
\* counted) number at most `limit`, and once no call is under way every key
\* Upstash holds has an expiry.
C29_LimitHoldsAcrossStores ==
    /\ \A p \in answered :
           Cardinality(allowedAt(caller[p].at)) <= limiter.limit
    /\ quiescent =>
           \A k \in DOMAIN upstash :
               upstashHolds(upstash, k, now) => upstash[k].expireAt # Null


\* The request in slot p has been refused by the limiter and answered.
refused(p) == caller[p].pc = "responded" /\ ~caller[p].result.allowed

\* C30: in the data download route a request the limiter does not allow is
\* answered with 429 and a Retry-After header, its body never read and the
\* database never queried, no request gets as far as its body before the
\* limiter has allowed it, and of the requests one client sends at one reading
\* of the clock (inside one 60-second window, however windows are counted)
\* at most 5 are answered with data.
C30_DownloadLimited ==
    /\ \A p \in Callers :
           /\ refused(p) =>
                  /\ caller[p].status = 429
                  /\ caller[p].retryAfter # Null
                  /\ ~caller[p].bodyRead
                  /\ ~caller[p].queried
           /\ (caller[p].pc \in {"body", "query"} \/ caller[p].bodyRead \/ caller[p].queried) =>
                  caller[p].result.allowed
    /\ \A t \in DOMAIN traffic.data : traffic.data[t] <= DOWNLOAD_RATE_LIMIT.limit

====
